---- MODULE Spec2Model ----
(***************************************************************************)
(* Rotation & Playback Control Engine of radio-automation:                 *)
(*   app/scheduler.py     check_rotation_rules, increment_song_counter,    *)
(*                        check_scheduled_shows, poll_current_track        *)
(*   app/audio_engine.py  send_liquidsoap_command, queue_track,            *)
(*                        insert_from_category                             *)
(*   app/api.py           the metadata-push routes and /api/queue          *)
(*   app/models.py        SystemState, NowPlaying, PlayHistory             *)
(*                                                                         *)
(* Time is the naive local clock datetime.now() reads, in seconds since    *)
(* Monday 00:00:00 of some week (weekday() = 0 on Monday).  Strings the    *)
(* code builds are modelled by their parts: a path is the list its         *)
(* split('/') gives, a decimal string the list of its digits.              *)
(***************************************************************************)
EXTENDS Integers, Sequences, FiniteSets, TLC

\* ---------------------------------------------------------------- bounds

\* engine track changes in one behaviour
MaxChanges == 4
\* clock advances in one behaviour of the poller
MaxTicks == 1
\* clock advances in one behaviour of the rule evaluator
MaxEvalTicks == 5
\* clock advances in one behaviour of the schedule runner
MaxSchedTicks == 6
\* engine track changes in one behaviour with the rule evaluator
MaxMixedChanges == 2
\* commands of one wrapper call after which the engine's queues list no request
MaxCommands == 2
\* engine track changes in one behaviour with the push routes
MaxPushChanges == 2
\* largest after_songs threshold tried
MaxThreshold == 3

\* ------------------------------------------------------- program constants

\* period of the rotation_check job, the clock's resolution here
RotationCheckSeconds == 30
SecondsPerMinute == 60
MinutesPerHour == 60
HoursPerDay == 24
DaysPerWeek == 7
SecondsPerHour == SecondsPerMinute * MinutesPerHour
SecondsPerDay == HoursPerDay * SecondsPerHour
\* check_scheduled_shows: tolerance window and last_run recency guard
WindowSeconds == 60
RecentRunSeconds == 120

\* the clock at start: Monday 23:59:30, one tick before Tuesday
StartTime == SecondsPerDay - RotationCheckSeconds

\* ------------------------------------------------------------ pure helpers

RECURSIVE str(_)
\* Python str(n) for n >= 0: the decimal digits, most significant first
str(n) == IF n < 10 THEN <<n>> ELSE Append(str(n \div 10), n % 10)

RECURSIVE int(_)
\* Python int(s) for a string of decimal digits
int(s) == IF Len(s) = 0 THEN 0
          ELSE 10 * int(SubSeq(s, 1, Len(s) - 1)) + s[Len(s)]

\* datetime.weekday(), time-of-day, minute, and the '%Y-%m-%d %H' bucket
weekday(t) == (t \div SecondsPerDay) % DaysPerWeek
time_of_day(t) == t % SecondsPerDay
minute_of(t) == (t \div SecondsPerMinute) % MinutesPerHour
strftime_hour(t) == <<t \div SecondsPerDay, (t % SecondsPerDay) \div SecondsPerHour>>

\* datetime.isoformat() / datetime.fromisoformat(): date, hour, minute, second
isoformat(t) ==
    <<t \div SecondsPerDay, (t % SecondsPerDay) \div SecondsPerHour,
      (t % SecondsPerHour) \div SecondsPerMinute, t % SecondsPerMinute>>
fromisoformat(s) ==
    s[1] * SecondsPerDay + s[2] * SecondsPerHour
    + (IF Len(s) >= 3 THEN s[3] * SecondsPerMinute ELSE 0) + (IF Len(s) >= 4 THEN s[4] ELSE 0)
\* the strings fromisoformat parses without a ValueError
IsIsoFormat(s) == Len(s) \in 2..4

Last(s) == s[Len(s)]

\* ------------------------------------------------------------------ files

\* full paths as the engine reports them, split at '/'
PathA == <<"", "media", "music", "a.mp3">>
PathB == <<"", "media", "music", "b.mp3">>
PathJ == <<"", "media", "jingles", "j.mp3">>
PathM == <<"", "media", "random-moderation", "m.mp3">>
PathX == <<"", "tmp", "x.mp3">>
EnginePaths == {PathA, PathB, PathJ, PathX}

\* the tags the engine reports for a file
EngineTitle(p) == IF p = PathA THEN "Tag A" ELSE IF p = PathJ THEN "Tag J" ELSE ""
EngineArtist(p) == IF p = PathA THEN "Band A" ELSE ""

\* AudioFile rows of the catalog, keyed by filename
InitialCatalog ==
    [f \in {"a.mp3", "j.mp3", "m.mp3"} |->
        CASE f = "a.mp3" -> [id |-> 1, filename |-> f, path |-> PathA, category |-> "music",
                             title |-> "", artist |-> "Catalog Band", duration |-> 180,
                             is_active |-> TRUE, play_count |-> 0, last_played |-> <<>>]
          [] f = "j.mp3" -> [id |-> 2, filename |-> f, path |-> PathJ, category |-> "jingles",
                             title |-> "Station ID", artist |-> "", duration |-> 5,
                             is_active |-> TRUE, play_count |-> 0, last_played |-> <<>>]
          [] OTHER       -> [id |-> 3, filename |-> f, path |-> PathM,
                             category |-> "random-moderation",
                             title |-> "Talk", artist |-> "Host", duration |-> 60,
                             is_active |-> TRUE, play_count |-> 0, last_played |-> <<>>]]

NoFile == ""

\* ------------------------------------------------------------------ state

VARIABLES
    now,            \* the clock datetime.now() reads
    ticks,          \* clock advances so far (bounds the behaviour)
    rules,          \* RotationRule rows, by id
    system_state,   \* SystemState rows: key -> value
    catalog,        \* AudioFile rows, by filename
    now_playing,    \* NowPlaying rows (the table; meant to hold one)
    play_history,   \* PlayHistory rows, in insertion order
    schedules,      \* Schedule rows, by id
    engine_meta,    \* the engine's recent tracks, most recent first
    changes,        \* engine track changes so far
    pushes,         \* metadata pushes the engine has posted, not yet handled
    sent,           \* commands sent to the engine by the latest job or handler run
    dispatched,     \* every insert_from_category call made by a rule, in order
    enqueued,       \* every queue_track call made by the Schedule Runner, in order
    song_calls,     \* increment_song_counter calls so far
    gated_out,      \* rules some increment_song_counter call has skipped by gating
    last_op,        \* the job or handler that ran last, when, and how it ended
    channel,        \* the command wrapper in progress on the control channel
    jobs            \* the job runs in progress statement by statement, and their locals

vars == <<now, ticks, rules, system_state, catalog, now_playing, play_history,
          schedules, engine_meta, changes, pushes, sent, dispatched, enqueued,
          song_calls, gated_out, last_op, channel, jobs>>

\* ------------------------------------------------------ persistent store

\* SystemState keys
RuleKey(id, what) == <<"rule", id, what>>
LastTrackKey == <<"last_track_id", 0, "">>

\* SystemState.get(key, default)
SystemState_get(ss, key, default) == IF key \in DOMAIN ss THEN ss[key] ELSE default

\* a set whose write does not reach the table
SystemState_set_lost(ss, key, value) == ss

\* SystemState.set(key, value): update the row or insert it, then commit
SystemState_set(ss, key, value) ==
    [k \in DOMAIN ss \cup {key} |-> IF k = key THEN value ELSE ss[k]]

\* ----------------------------------------------------------- the engine

\* What send_liquidsoap_command can return: None (an exception), or the decoded
\* buffer: empty, holding an 'ERROR' marker, or a regular answer.
Response(kind, sections) == [kind |-> kind, sections |-> sections]
ResponseNone == Response("None", <<>>)
ResponseEmpty == Response("empty", <<>>)
ResponseError == Response("ERROR", <<>>)
ResponseOk == Response("ok", <<>>)
CommandResponses == {ResponseNone, ResponseEmpty, ResponseError, ResponseOk}

IsNone(r) == r.kind = "None"
\* Python truthiness of a response: not None and not ''
Truthy(r) == r.kind \notin {"None", "empty"}
HasError(r) == r.kind = "ERROR"

Command(name, arg) == [name |-> name, arg |-> arg]
NoArg == <<>>

\* no command wrapper is running
Idle == [pc |-> "idle"]

\* no job run is in progress
NoJobs == [poll |-> Idle, eval |-> Idle, sched |-> Idle]

\* number of sections of a metadata dump
MetaSections == 2

\* One section of '<source>.metadata': its number and its key="value" lines
Section(num, content) == [num |-> num, content |-> content]
TrackLines(t) ==
    [k \in {"title", "artist", "filename", "on_air"} |->
        CASE k = "title" -> EngineTitle(t.path)
          [] k = "artist" -> EngineArtist(t.path)
          [] k = "filename" -> t.path
          [] OTHER -> t.on_air]

\* The dump the engine prints: sections MetaSections .. 1, 1 the most recent
MetadataDump(meta) ==
    Response("ok",
        [i \in 1..MetaSections |->
            LET num == MetaSections + 1 - i
            IN  Section(num, IF num <= Len(meta) THEN TrackLines(meta[num]) ELSE <<>>)])

\* A dump whose only section has a title and no filename line
UntaggedDump == Response("ok", <<Section(1, [k \in {"title"} |-> "Live"])>>)

\* what the metadata command can return
MetadataResponses(meta) ==
    {ResponseNone, ResponseEmpty, ResponseError, MetadataDump(meta), UntaggedDump}

\* --------------------------------------------------------- Queue Dispatcher

ModerationCategories == {"random-moderation", "planned-moderation"}

\* command_map of insert_from_category
command_map ==
    [c \in {"jingles", "promos", "ads", "random-moderation", "planned-moderation"} |->
        CASE c = "jingles" -> "jingle"
          [] c = "promos" -> "promo"
          [] c = "ads" -> "ad"
          [] c = "random-moderation" -> "random_mod"
          [] OTHER -> "planned_mod"]

\* get_random_file_from_category: the rows func.random() can return first
\* (NoFile when the category has no active file)
RandomFileChoices(cat, category) ==
    LET rows == {f \in DOMAIN cat : cat[f].category = category /\ cat[f].is_active}
    IN  IF rows = {} THEN {NoFile} ELSE rows

\* a routing that sends every category to the normal queue
PushCommandName_plain(category) == "queue.push"

\* The push command for a file of a category
PushCommandName(category) ==
    IF category \in ModerationCategories THEN "moderation_queue.push" ELSE "queue.push"

\* insert_from_category(category) with the file picked and the engine's answers
\* to the push (r1) and to the fallback command (r2): commands sent and result
insert_from_category(cat, category, pick, r1, r2) ==
    LET has_file == pick # NoFile /\ cat[pick].path # <<>>
        push == Command(PushCommandName(category), cat[pick].path)
        pushed == has_file /\ ~IsNone(r1) /\ ~HasError(r1)
        first == IF has_file THEN <<push>> ELSE <<>>
    IN  IF pushed THEN [sent |-> first, ok |-> TRUE]
        ELSE IF category \in DOMAIN command_map
             THEN [sent |-> Append(first, Command(command_map[category], NoArg)),
                   ok |-> ~IsNone(r2)]
             ELSE [sent |-> first, ok |-> FALSE]

\* no dispatcher call
NoOutcome == [sent |-> <<>>, ok |-> FALSE]

\* every outcome of one insert_from_category call
InsertOutcomes(cat, category) ==
    {insert_from_category(cat, category, pick, r1, r2) :
        pick \in RandomFileChoices(cat, category),
        r1 \in CommandResponses, r2 \in CommandResponses}

\* audio_engine.queue_track(filepath)
queue_track(filepath, r) == [sent |-> <<Command("push", filepath)>>, ok |-> ~IsNone(r)]

\* ------------------------------------------------------------ rule gating

NoTime == <<>>
AllDays == 0..(DaysPerWeek - 1)

\* a gate that looks at the weekday only
GatePasses_day_only(rule, t) == weekday(t) \in rule.days_of_week

\* a gate that takes a range with time_start > time_end to run over midnight
GatePasses_wraps(rule, t) ==
    /\ weekday(t) \in rule.days_of_week
    /\ (rule.time_start # NoTime /\ rule.time_end # NoTime) =>
          IF rule.time_start[1] <= rule.time_end[1]
          THEN rule.time_start[1] <= time_of_day(t) /\ time_of_day(t) <= rule.time_end[1]
          ELSE rule.time_start[1] <= time_of_day(t) \/ time_of_day(t) <= rule.time_end[1]

\* the day and time-range conditions shared by check_rotation_rules and
\* increment_song_counter
GatePasses(rule, t) ==
    /\ weekday(t) \in rule.days_of_week
    /\ (rule.time_start # NoTime /\ rule.time_end # NoTime) =>
          (rule.time_start[1] <= time_of_day(t) /\ time_of_day(t) <= rule.time_end[1])

\* a days_of_week token that int() rejects with a ValueError (such as 'x')
MalformedDay == -1

\* [int(d) for d in rule.days_of_week.split(',') if d] raises
DaysMalformed(rule) == MalformedDay \in rule.days_of_week

RECURSIVE SetToSeq(_)
\* the ids of a set in ascending order
SetToSeq(S) ==
    IF S = {} THEN <<>>
    ELSE LET m == CHOOSE x \in S : \A y \in S : x <= y
         IN  <<m>> \o SetToSeq(S \ {m})

\* ---------------------------------------------------- Song-Count Trigger

SongCounterKey(id) == RuleKey(id, "song_counter")

\* the counter value increment_song_counter reads and advances
NextCounter(ss, id) == int(SystemState_get(ss, SongCounterKey(id), str(0))) + 1

\* a threshold test that fires one song late
ThresholdReached_late(counter, rule) == counter > rule.interval_value

\* a threshold test that takes a threshold of 0 for 'switched off'
ThresholdReached_positive(counter, rule) ==
    rule.interval_value > 0 /\ counter >= rule.interval_value

\* a threshold test that no counter passes
ThresholdReached_never(counter, rule) == FALSE

\* whether the advanced counter reaches the rule's threshold
ThresholdReached(counter, rule) == counter >= rule.interval_value

\* a loop body that keeps the counter when the dispatcher call fails
SongRuleStep_rollback(acc, id, call, t, out) ==
    LET rule == rules[id]
        counter == NextCounter(acc.ss, id)
    IN  IF ~GatePasses(rule, t)
        THEN [acc EXCEPT !.gated = @ \cup {id}]
        ELSE IF ThresholdReached(counter, rule)
        THEN [acc EXCEPT !.ss = IF out.ok THEN SystemState_set(@, SongCounterKey(id), str(0))
                                 ELSE @,
                         !.sent = @ \o out.sent,
                         !.disp = Append(@, [rule |-> id, category |-> rule.category,
                                             call |-> call, at |-> t]),
                         !.failed = IF out.ok THEN @ ELSE @ \cup {id}]
        ELSE [acc EXCEPT !.ss = SystemState_set(@, SongCounterKey(id), str(counter))]

\* the body of increment_song_counter's loop for one rule; acc carries the store,
\* the commands sent, and the dispatch and gating records
SongRuleStep(acc, id, call, t, out) ==
    LET rule == rules[id]
        counter == NextCounter(acc.ss, id)
    IN  IF ~GatePasses(rule, t)
        THEN [acc EXCEPT !.gated = @ \cup {id}]
        ELSE IF ThresholdReached(counter, rule)
        THEN [acc EXCEPT !.ss = SystemState_set(@, SongCounterKey(id), str(0)),
                         !.sent = @ \o out.sent,
                         !.disp = Append(@, [rule |-> id, category |-> rule.category,
                                             call |-> call, at |-> t]),
                         !.failed = IF out.ok THEN @ ELSE @ \cup {id}]
        ELSE [acc EXCEPT !.ss = SystemState_set(@, SongCounterKey(id), str(counter))]

\* whether the loop body dispatches for rule id
SongRuleFires(acc, id, t) ==
    GatePasses(rules[id], t) /\ ThresholdReached(NextCounter(acc.ss, id), rules[id])

RECURSIVE SongRuleLoop(_, _, _, _)
\* every result of the loop over the remaining rules ids; the ValueError of a
\* malformed days_of_week leaves the function, and the loop with it
SongRuleLoop(acc, ids, call, t) ==
    IF ids = <<>> THEN {acc}
    ELSE IF DaysMalformed(rules[Head(ids)]) THEN {acc}
    ELSE UNION {SongRuleLoop(SongRuleStep(acc, Head(ids), call, t, out), Tail(ids), call, t) :
                    out \in IF SongRuleFires(acc, Head(ids), t)
                            THEN InsertOutcomes(catalog, rules[Head(ids)].category)
                            ELSE {NoOutcome}}

\* the rules increment_song_counter queries
ActiveSongRules ==
    SetToSeq({id \in DOMAIN rules : rules[id].rule_type = "after_songs" /\ rules[id].is_active})

\* increment_song_counter(): every result, from the store ss
increment_song_counter(ss, t) ==
    SongRuleLoop([ss |-> ss, sent |-> <<>>, disp |-> dispatched, gated |-> gated_out,
                  failed |-> {}],
                 ActiveSongRules, song_calls + 1, t)

\* ------------------------------------------------------------ NowPlaying

\* a get_current that adds a row without looking for one
NowPlaying_get_current_insert(table) ==
    <<[title |-> "", artist |-> "", filename |-> "", category |-> "", duration |-> 0,
       started_at |-> <<>>, audio_file_id |-> 0]>> \o table

\* NowPlaying.get_current(): the first row, created when the table is empty
NowPlaying_get_current(table) ==
    IF table = <<>>
    THEN <<[title |-> "", artist |-> "", filename |-> "", category |-> "", duration |-> 0,
            started_at |-> <<>>, audio_file_id |-> 0]>>
    ELSE table

\* NowPlaying.update(...): overwrite the first row, started_at = the clock
NowPlaying_update(table, title, artist, filename, category, duration, audio_file_id, t) ==
    [NowPlaying_get_current(table) EXCEPT ![1] =
        [title |-> title, artist |-> artist, filename |-> filename, category |-> category,
         duration |-> duration, started_at |-> <<t>>, audio_file_id |-> audio_file_id]]

\* a PlayHistory row (played_at left out); change names the engine track change
\* the row records (not a column)
HistoryRow(audio_file_id, filename, title, artist, category, t, change) ==
    [audio_file_id |-> audio_file_id, filename |-> filename, title |-> title,
     artist |-> artist, category |-> category, triggered_by |-> "rotation",
     change |-> change]

\* Python's  a or b  on strings
Or(a, b) == IF a # "" THEN a ELSE b

\* ------------------------------------------------------ Track-Change Poller

\* the section poll_current_track parses: the lowest-numbered one with a
\* filename line, else the first one with any content, else none (<<>>)
BestSection(sections) ==
    LET with_name == {i \in DOMAIN sections : "filename" \in DOMAIN sections[i].content}
        with_any == {i \in DOMAIN sections : DOMAIN sections[i].content # {}}
        lowest == CHOOSE i \in with_name :
                    \A j \in with_name :
                        \/ sections[i].num < sections[j].num
                        \/ (sections[i].num = sections[j].num /\ i <= j)
        first == CHOOSE i \in with_any : \A j \in with_any : i <= j
    IN  IF with_name # {} THEN <<sections[lowest].content>>
        ELSE IF with_any # {} THEN <<sections[first].content>>
        ELSE <<>>

\* the metadata dict parsed from a section, '' (here <<>>, 0, "") by default
ParseMetadata(content) ==
    [filename |-> IF "filename" \in DOMAIN content THEN content["filename"] ELSE <<>>,
     on_air |-> IF "on_air" \in DOMAIN content THEN content["on_air"] ELSE 0,
     title |-> IF "title" \in DOMAIN content THEN content["title"] ELSE "",
     artist |-> IF "artist" \in DOMAIN content THEN content["artist"] ELSE ""]

\* track_id = f"{current_filename}_{current_on_air}"
TrackId(metadata) == <<metadata.filename, metadata.on_air>>
NoTrackId == <<>>

\* the last path component
Basename(path) == IF Len(path) > 1 THEN Last(path) ELSE path[1]

\* the category a /media/<category>/... path names, '' otherwise
PathCategory(path) ==
    IF Len(path) >= 3 /\ path[1] = "" /\ path[2] = "media" THEN path[3] ELSE ""

\* the categories whose tracks advance the song counters
CountsAsSong(category) == category = "music" \/ category = ""

MetadataCommand == Command("Radio_Automation.metadata", NoArg)

\* a resolution in which the engine's tags override the catalog's
ResolveTrack_engine_first(cat, metadata) ==
    LET filename == Basename(metadata.filename)
        known == filename \in DOMAIN cat
        row == cat[filename]
    IN  [filename |-> filename,
         known |-> known,
         title |-> Or(metadata.title, IF known THEN Or(row.title, filename) ELSE filename),
         artist |-> IF known THEN Or(metadata.artist, row.artist) ELSE metadata.artist,
         duration |-> IF known THEN row.duration ELSE 0,
         category |-> IF known THEN row.category ELSE PathCategory(metadata.filename),
         audio_file_id |-> IF known THEN row.id ELSE 0]

\* what poll_current_track derives from the metadata of a new track
ResolveTrack(cat, metadata) ==
    LET filename == Basename(metadata.filename)
        known == filename \in DOMAIN cat
        row == cat[filename]
        title0 == IF known THEN Or(row.title, Or(metadata.title, filename))
                  ELSE metadata.title
    IN  [filename |-> filename,
         known |-> known,
         title |-> Or(title0, filename),
         artist |-> IF known THEN Or(row.artist, metadata.artist) ELSE metadata.artist,
         duration |-> IF known THEN row.duration ELSE 0,
         category |-> IF known THEN row.category ELSE PathCategory(metadata.filename),
         audio_file_id |-> IF known THEN row.id ELSE 0]

\* the catalog after a play of filename is counted
CountPlay(cat, filename, t) ==
    IF filename \in DOMAIN cat
    THEN [cat EXCEPT ![filename].play_count = @ + 1, ![filename].last_played = <<t>>]
    ELSE cat

\* an identity test that compares the bare filename with the stored identity
SameTrack_filename(ss, metadata) ==
    metadata.filename = SystemState_get(ss, LastTrackKey, NoTrackId)

\* whether a parsed identity is the one stored as last_track_id
SameTrack(ss, metadata) == TrackId(metadata) = SystemState_get(ss, LastTrackKey, NoTrackId)

\* a poll that forgets the stored identity when it returns early
PollNoOp_forgets(outcome) ==
    /\ sent' = <<MetadataCommand>>
    /\ last_op' = [op |-> "poll", outcome |-> outcome, change |-> 0, at |-> now,
                   failed |-> {}]
    /\ system_state' = IF outcome = "same" THEN system_state
                       ELSE SystemState_set(system_state, LastTrackKey, NoTrackId)
    /\ UNCHANGED <<channel, jobs, now, ticks, rules, catalog, now_playing, play_history,
                   schedules, engine_meta, changes, pushes, dispatched, enqueued,
                   song_calls, gated_out>>

\* a poll that returns before any write
PollNoOp(outcome) ==
    /\ sent' = <<MetadataCommand>>
    /\ last_op' = [op |-> "poll", outcome |-> outcome, change |-> 0, at |-> now,
                   failed |-> {}]
    /\ UNCHANGED <<channel, jobs, now, ticks, rules, system_state, catalog, now_playing, play_history,
                   schedules, engine_meta, changes, pushes, dispatched, enqueued,
                   song_calls, gated_out>>

\* a poll that found a new track
PollNewTrack(metadata) ==
    LET track == ResolveTrack(catalog, metadata)
        ss1 == SystemState_set(system_state, LastTrackKey, TrackId(metadata))
    IN  /\ catalog' = CountPlay(catalog, track.filename, now)
        /\ now_playing' = NowPlaying_update(now_playing, track.title, track.artist,
                              track.filename, track.category, track.duration,
                              track.audio_file_id, now)
        /\ play_history' = Append(play_history,
                              HistoryRow(track.audio_file_id, track.filename, track.title,
                                         track.artist, track.category, now, metadata.on_air))
        /\ IF CountsAsSong(track.category)
           THEN \E acc \in increment_song_counter(ss1, now) :
                    /\ system_state' = acc.ss
                    /\ sent' = <<MetadataCommand>> \o acc.sent
                    /\ dispatched' = acc.disp
                    /\ gated_out' = acc.gated
                    /\ song_calls' = song_calls + 1
                    /\ last_op' = [op |-> "poll", outcome |-> "new",
                                   change |-> metadata.on_air, at |-> now,
                                   failed |-> acc.failed]
           ELSE /\ system_state' = ss1
                /\ sent' = <<MetadataCommand>>
                /\ last_op' = [op |-> "poll", outcome |-> "new",
                               change |-> metadata.on_air, at |-> now, failed |-> {}]
                /\ UNCHANGED <<dispatched, gated_out, song_calls>>
        /\ UNCHANGED <<channel, jobs, now, ticks, rules, schedules, engine_meta, changes, pushes, enqueued>>

\* poll_current_track(app), one run of the track_poll job
poll_current_track ==
    \E response \in MetadataResponses(engine_meta) :
        IF ~Truthy(response) \/ HasError(response) THEN PollNoOp("failed")
        ELSE LET best == BestSection(response.sections)
             IN  IF best = <<>> THEN PollNoOp("no section")
                 ELSE LET metadata == ParseMetadata(best[1])
                      IN  IF metadata.filename = <<>> THEN PollNoOp("no filename")
                          ELSE IF SameTrack(system_state, metadata) THEN PollNoOp("same")
                          ELSE PollNewTrack(metadata)

\* --------------------------------------------------- metadata-push routes

\* StreamSettings.*_nowplaying_text for the categories that get a custom text
CustomText(category) ==
    CASE category = "jingles" -> <<"jingle_nowplaying_text">>
      [] category = "promos" -> <<"promo_nowplaying_text">>
      [] category = "ads" -> <<"ad_nowplaying_text">>
      [] category \in ModerationCategories -> <<"moderation_nowplaying_text">>
      [] OTHER -> <<>>

\* title and artist the push routes show for a catalog row
PushTitle(row, title, filename) ==
    IF CustomText(row.category) # <<>> THEN CustomText(row.category)[1]
    ELSE Or(row.title, Or(title, filename))
PushArtist(row, artist) ==
    IF CustomText(row.category) # <<>> THEN "" ELSE Or(row.artist, artist)

\* POST /api/internal/track-change, handling the posted push m
internal_track_change(m) ==
    LET filename == Basename(m.filename)
        known == filename \in DOMAIN catalog
        row == catalog[filename]
    IN  /\ m \in pushes /\ m.route = "track-change"
        /\ pushes' = pushes \ {m}
        /\ IF known
           THEN /\ catalog' = CountPlay(catalog, filename, now)
                /\ now_playing' = NowPlaying_update(now_playing,
                                      PushTitle(row, m.title, filename),
                                      PushArtist(row, m.artist), filename, row.category,
                                      row.duration, row.id, now)
                /\ play_history' = Append(play_history,
                                      HistoryRow(row.id, filename,
                                                 PushTitle(row, m.title, filename),
                                                 PushArtist(row, m.artist), row.category,
                                                 now, m.change))
           ELSE /\ now_playing' = NowPlaying_update(now_playing, Or(m.title, filename),
                                      m.artist, filename, "", 0, 0, now)
                /\ UNCHANGED <<catalog, play_history>>
        /\ sent' = <<>>
        /\ last_op' = [op |-> "track-change", outcome |-> "", change |-> m.change, at |-> now,
                       failed |-> {}]
        /\ UNCHANGED <<channel, jobs, now, ticks, rules, system_state, schedules, engine_meta, changes,
                       dispatched, enqueued, song_calls, gated_out>>

\* POST /api/now-playing, handling the posted push m (the catalog is searched
\* for the posted filename as it is)
update_now_playing(m) ==
    LET filename == m.filename[1]
        known == Len(m.filename) = 1 /\ filename \in DOMAIN catalog
        row == catalog[filename]
    IN  /\ m \in pushes /\ m.route = "now-playing"
        /\ pushes' = pushes \ {m}
        /\ IF known
           THEN /\ catalog' = CountPlay(catalog, filename, now)
                /\ now_playing' = NowPlaying_update(now_playing,
                                      Or(PushTitle(row, m.title, filename), filename),
                                      PushArtist(row, m.artist), filename, row.category,
                                      row.duration, row.id, now)
                /\ play_history' = Append(play_history,
                                      HistoryRow(row.id, filename,
                                                 PushTitle(row, m.title, filename),
                                                 PushArtist(row, m.artist), row.category,
                                                 now, m.change))
           ELSE /\ now_playing' = NowPlaying_update(now_playing, Or(m.title, filename),
                                      m.artist, filename, "", 0, 0, now)
                /\ UNCHANGED <<catalog, play_history>>
        /\ sent' = <<>>
        /\ last_op' = [op |-> "now-playing", outcome |-> "", change |-> m.change, at |-> now,
                       failed |-> {}]
        /\ UNCHANGED <<channel, jobs, now, ticks, rules, system_state, schedules, engine_meta, changes,
                       dispatched, enqueued, song_calls, gated_out>>

\* --------------------------------------------------------- the environment

\* the pushes the engine may post for a track change: none, or one to a route
PushChoices(path, change) ==
    {{}} \cup
    {{[route |-> "track-change", filename |-> path, title |-> EngineTitle(path),
       artist |-> EngineArtist(path), change |-> change]}} \cup
    {{[route |-> "now-playing", filename |-> <<Basename(path)>>, title |-> EngineTitle(path),
       artist |-> EngineArtist(path), change |-> change]}}

\* the engine puts another track on air (its on_air marker is new) and posts
\* the pushes posted
TrackChange(path, posted) ==
    /\ engine_meta' = SubSeq(<<[path |-> path, on_air |-> changes + 1]>> \o engine_meta,
                             1, IF Len(engine_meta) < MetaSections
                                THEN Len(engine_meta) + 1 ELSE MetaSections)
    /\ pushes' = pushes \cup posted
    /\ changes' = changes + 1
    /\ UNCHANGED <<channel, jobs, now, ticks, rules, system_state, catalog, now_playing, play_history,
                   schedules, sent, dispatched, enqueued, song_calls, gated_out, last_op>>

\* a track change of an engine that posts no pushes
EngineTrackChange ==
    /\ changes < MaxChanges
    /\ \E path \in EnginePaths : TrackChange(path, {})

\* a track change of an engine that may post a push
EngineTrackChangePosting ==
    /\ changes < MaxPushChanges
    /\ \E path \in EnginePaths :
        \E posted \in PushChoices(path, changes + 1) : TrackChange(path, posted)

\* the clock advances
Tick ==
    /\ ticks < MaxTicks
    /\ ticks' = ticks + 1
    /\ now' = now + RotationCheckSeconds
    /\ UNCHANGED <<channel, jobs, rules, system_state, catalog, now_playing, play_history, schedules,
                   engine_meta, changes, pushes, sent, dispatched, enqueued, song_calls,
                   gated_out, last_op>>

\* ------------------------------------------------------------------ rules

Rule(rule_type, category, interval_value, minute_of_hour, days, time_start, time_end, priority, is_active) ==
    [rule_type |-> rule_type, category |-> category, interval_value |-> interval_value,
     minute_of_hour |-> minute_of_hour, days_of_week |-> days, time_start |-> time_start,
     time_end |-> time_end, priority |-> priority, is_active |-> is_active]

NoMinute == <<>>

\* the gates tried: none, Tuesday only, and from the start time to midnight
GateChoices ==
    {<<AllDays, NoTime, NoTime>>,
     <<{1}, NoTime, NoTime>>,
     <<AllDays, <<time_of_day(StartTime)>>, <<SecondsPerDay - 1>>>>}

\* the after_songs rules tried for rule 1: every threshold ungated, and
\* threshold 2 under every gate
SongRuleChoices ==
    {Rule("after_songs", "jingles", T, NoMinute, AllDays, NoTime, NoTime, 0, TRUE) :
        T \in 1..MaxThreshold}
    \cup
    {Rule("after_songs", "jingles", 2, NoMinute, gate[1], gate[2], gate[3], 0, TRUE) :
        gate \in GateChoices}

\* rule 2: a promo after every second song (the catalog holds no promo)
PromoSongRule ==
    Rule("after_songs", "promos", 2, NoMinute, AllDays, NoTime, NoTime, 0, TRUE)

NoOp == [op |-> "init", outcome |-> "", change |-> 0, at |-> 0, failed |-> {}]

\* ------------------------------------------- poller and song-count trigger

Init ==
    /\ now = StartTime
    /\ ticks = 0
    /\ \E r1 \in SongRuleChoices : rules = <<r1, PromoSongRule>>
    /\ system_state = <<>>
    /\ catalog = InitialCatalog
    /\ now_playing = <<>>
    /\ play_history = <<>>
    /\ schedules = <<>>
    /\ engine_meta = <<>>
    /\ changes = 0
    /\ pushes = {}
    /\ sent = <<>>
    /\ dispatched = <<>>
    /\ enqueued = <<>>
    /\ song_calls = 0
    /\ gated_out = {}
    /\ last_op = NoOp
    /\ channel = Idle
    /\ jobs = NoJobs

Next ==
    \/ EngineTrackChange
    \/ poll_current_track
    \/ Tick

Spec == Init /\ [][Next]_vars

\* the engine with the push routes in use
NextPush ==
    \/ EngineTrackChangePosting
    \/ poll_current_track
    \/ \E m \in pushes : internal_track_change(m)
    \/ \E m \in pushes : update_now_playing(m)
    \/ Tick

SpecPush == Init /\ [][NextPush]_vars

\* ------------------------------------------------------------------ claims

\* the calls of increment_song_counter on which rule id was dispatched
DispatchCalls(id) == {dispatched[i].call : i \in {j \in DOMAIN dispatched : dispatched[j].rule = id}}
\* the number of dispatches of rule id
DispatchCount(id) == Cardinality({j \in DOMAIN dispatched : dispatched[j].rule = id})
\* the persisted song counter of rule id, as a number
StoredCounter(id) == int(SystemState_get(system_state, SongCounterKey(id), str(0)))
\* an active after_songs rule with threshold >= 1 that no call has gated out
AlwaysGatedIn(id) ==
    /\ rules[id].rule_type = "after_songs"
    /\ rules[id].is_active
    /\ rules[id].interval_value >= 1
    /\ id \notin gated_out

\* C1: an active after_songs rule with threshold T >= 1 whose gating passed on
\* every increment_song_counter call has been dispatched exactly on the calls
\* T, 2T, 3T, ... (once each), and its persisted counter is the number of calls
\* since the last of them: it grew by one on each other call and is 0 after a fire.
C1_FiresEveryTthCall ==
    \A id \in DOMAIN rules :
        AlwaysGatedIn(id) =>
            /\ DispatchCalls(id) = {k \in 1..song_calls : k % rules[id].interval_value = 0}
            /\ DispatchCount(id) = song_calls \div rules[id].interval_value
            /\ StoredCounter(id) = song_calls % rules[id].interval_value

\* C1 witness: with T = 2 the rule fired on calls 2 and 4 and its counter is back at 0
C1_Witness ==
    /\ AlwaysGatedIn(1)
    /\ rules[1].interval_value = 2
    /\ song_calls = 4
    /\ DispatchCalls(1) = {2, 4}
    /\ StoredCounter(1) = 0

\* the polls that found a new identity resolving to category 'music' (in Spec
\* every PlayHistory row is the poller's)
MusicPolls == Cardinality({i \in DOMAIN play_history : play_history[i].category = "music"})

\* C2: through poll_current_track, the 'jingles' rule with threshold T, gating
\* passing, has been dispatched floor(k / T) times, k the number of polls that found
\* a new identity resolving to 'music'.
C2_DispatchesPerMusicPoll ==
    (AlwaysGatedIn(1) /\ rules[1].category = "jingles") =>
        DispatchCount(1) = MusicPolls \div rules[1].interval_value

\* the identity the engine's current dump parses to is the stored one
CurrentIdentityStored ==
    LET best == BestSection(MetadataDump(engine_meta).sections)
    IN  /\ best # <<>>
        /\ TrackId(ParseMetadata(best[1])) = SystemState_get(system_state, LastTrackKey, NoTrackId)

\* C5: a poll_current_track run whose parsed identity equals the stored
\* last_track_id appends no PlayHistory row, leaves NowPlaying (started_at
\* too), the catalog's play_count/last_played and every song counter as they
\* were, and invokes no dispatcher.
C5_SameTrackPollHasNoEffect ==
    [][(poll_current_track /\ CurrentIdentityStored) =>
          /\ UNCHANGED <<play_history, now_playing, catalog, system_state, dispatched,
                         song_calls>>
          /\ sent' = <<MetadataCommand>>]_vars

\* C5 witness: a poll has just returned on an unchanged identity, with a row in
\* PlayHistory and NowPlaying set from the earlier poll of that track
C5_Witness ==
    /\ last_op.op = "poll" /\ last_op.outcome = "same"
    /\ CurrentIdentityStored
    /\ Len(play_history) = 1
    /\ now_playing # <<>>

\* the PlayHistory rows recording engine track change c
RowsOf(c) == {i \in DOMAIN play_history : play_history[i].change = c}

\* C6: every engine track change has at most one PlayHistory row, whichever
\* producers report it.
C6_OneRowPerChange == \A c \in 1..changes : Cardinality(RowsOf(c)) <= 1

\* the poller has caught up with the engine's last track change: no later poll
\* writes anything
PollerCaughtUp == changes = MaxChanges /\ CurrentIdentityStored

\* C7: no play-history entry is lost: every track that went on air has a
\* PlayHistory row at the latest when the poller has caught up with the engine's
\* last track change.
C7_NoEntryLost == PollerCaughtUp => \A c \in 1..changes : RowsOf(c) # {}

\* ------------------------------------------------- Rotation Rule Evaluator

LastTriggerKey(id) == RuleKey(id, "last_trigger")
NoValue == <<>>

\* an at_minute test that forgets the stored hour bucket
AtMinuteShouldTrigger_nobucket(rule, last, t) ==
    /\ rule.minute_of_hour # NoMinute
    /\ minute_of(t) = rule.minute_of_hour[1]

\* an at_minute test that takes any minute of an hour not yet served
AtMinuteShouldTrigger_any_minute(rule, last, t) ==
    /\ rule.minute_of_hour # NoMinute
    /\ (last = NoValue \/ last # strftime_hour(t))

\* at_minute: the minute matches and the stored bucket is not this hour's
AtMinuteShouldTrigger(rule, last, t) ==
    /\ rule.minute_of_hour # NoMinute
    /\ minute_of(t) = rule.minute_of_hour[1]
    /\ (last = NoValue \/ last # strftime_hour(t))

\* an interval test that takes interval_value for seconds
IntervalShouldTrigger_seconds(rule, last, t) ==
    /\ rule.interval_value > 0
    /\ \/ last = NoValue
       \/ ~IsIsoFormat(last)
       \/ t - fromisoformat(last) >= rule.interval_value

\* interval: nothing stored, an unparsable value, or interval_value minutes elapsed
IntervalShouldTrigger(rule, last, t) ==
    /\ rule.interval_value > 0
    /\ \/ last = NoValue
       \/ ~IsIsoFormat(last)
       \/ t - fromisoformat(last) >= rule.interval_value * SecondsPerMinute

\* a loop body that also counts a song for an after_songs rule
EvalRuleStep_counts_songs(acc, id, t, out) ==
    LET rule == rules[id]
        last == SystemState_get(acc.ss, LastTriggerKey(id), NoValue)
        fire(value) ==
            [acc EXCEPT !.ss = SystemState_set(@, LastTriggerKey(id), value),
                        !.sent = @ \o out.sent,
                        !.disp = Append(@, [rule |-> id, category |-> rule.category,
                                            call |-> 0, at |-> t]),
                        !.failed = IF out.ok THEN @ ELSE @ \cup {id}]
    IN  IF ~GatePasses(rule, t) THEN acc
        ELSE IF rule.rule_type = "at_minute" /\ AtMinuteShouldTrigger(rule, last, t)
             THEN fire(strftime_hour(t))
        ELSE IF rule.rule_type = "interval" /\ IntervalShouldTrigger(rule, last, t)
             THEN fire(isoformat(t))
        ELSE IF rule.rule_type = "after_songs"
             THEN [acc EXCEPT !.ss = SystemState_set(@, SongCounterKey(id),
                                                     str(NextCounter(acc.ss, id)))]
        ELSE acc

\* the body of check_rotation_rules' loop for one rule
EvalRuleStep(acc, id, t, out) ==
    LET rule == rules[id]
        last == SystemState_get(acc.ss, LastTriggerKey(id), NoValue)
        fire(value) ==
            [acc EXCEPT !.ss = SystemState_set(@, LastTriggerKey(id), value),
                        !.sent = @ \o out.sent,
                        !.disp = Append(@, [rule |-> id, category |-> rule.category,
                                            call |-> 0, at |-> t]),
                        !.failed = IF out.ok THEN @ ELSE @ \cup {id}]
    IN  IF ~GatePasses(rule, t) THEN acc
        ELSE IF rule.rule_type = "at_minute" /\ AtMinuteShouldTrigger(rule, last, t)
             THEN fire(strftime_hour(t))
        ELSE IF rule.rule_type = "interval" /\ IntervalShouldTrigger(rule, last, t)
             THEN fire(isoformat(t))
        ELSE acc

\* whether the loop body dispatches for rule id
EvalRuleFires(acc, id, t) ==
    LET rule == rules[id]
        last == SystemState_get(acc.ss, LastTriggerKey(id), NoValue)
    IN  /\ GatePasses(rule, t)
        /\ \/ rule.rule_type = "at_minute" /\ AtMinuteShouldTrigger(rule, last, t)
           \/ rule.rule_type = "interval" /\ IntervalShouldTrigger(rule, last, t)

RECURSIVE EvalRuleLoop(_, _, _)
\* every result of the loop over the remaining rules ids; the ValueError of a
\* malformed days_of_week leaves the job, and the loop with it
EvalRuleLoop(acc, ids, t) ==
    IF ids = <<>> THEN {acc}
    ELSE IF DaysMalformed(rules[Head(ids)]) THEN {[acc EXCEPT !.raised = TRUE]}
    ELSE UNION {EvalRuleLoop(EvalRuleStep(acc, Head(ids), t, out), Tail(ids), t) :
                    out \in IF EvalRuleFires(acc, Head(ids), t)
                            THEN InsertOutcomes(catalog, rules[Head(ids)].category)
                            ELSE {NoOutcome}}

RECURSIVE ByPriority_ascending(_)
\* rule ids by ascending priority
ByPriority_ascending(S) ==
    IF S = {} THEN <<>>
    ELSE LET m == CHOOSE x \in S :
                    \A y \in S : \/ rules[x].priority < rules[y].priority
                                 \/ (rules[x].priority = rules[y].priority /\ x <= y)
         IN  <<m>> \o ByPriority_ascending(S \ {m})

RECURSIVE ByPriority(_)
\* rule ids by descending priority (equal priorities by id)
ByPriority(S) ==
    IF S = {} THEN <<>>
    ELSE LET m == CHOOSE x \in S :
                    \A y \in S : \/ rules[x].priority > rules[y].priority
                                 \/ (rules[x].priority = rules[y].priority /\ x <= y)
         IN  <<m>> \o ByPriority(S \ {m})

\* the rules check_rotation_rules queries, in its order
ActiveRulesByPriority == ByPriority({id \in DOMAIN rules : rules[id].is_active})

\* check_rotation_rules(app), one run of the rotation_check job
check_rotation_rules ==
    /\ \E acc \in EvalRuleLoop([ss |-> system_state, sent |-> <<>>, disp |-> dispatched,
                                raised |-> FALSE, failed |-> {}],
                               ActiveRulesByPriority, now) :
            /\ system_state' = acc.ss
            /\ sent' = acc.sent
            /\ dispatched' = acc.disp
            /\ last_op' = [op |-> "rotation", outcome |-> IF acc.raised THEN "raised" ELSE "",
                           change |-> 0, at |-> now, failed |-> acc.failed]
    /\ UNCHANGED <<channel, jobs, now, ticks, rules, catalog, now_playing, play_history, schedules,
                   engine_meta, changes, pushes, enqueued, song_calls, gated_out>>

\* the clock at the evaluator's start: Monday 23:58:30
EvalStartTime == SecondsPerDay - 3 * RotationCheckSeconds

\* the clock advances by one job period, or by an hour in which no job ran
EvalTick ==
    /\ ticks < MaxEvalTicks
    /\ ticks' = ticks + 1
    /\ \E step \in {RotationCheckSeconds, SecondsPerHour} : now' = now + step
    /\ UNCHANGED <<channel, jobs, rules, system_state, catalog, now_playing, play_history, schedules,
                   engine_meta, changes, pushes, sent, dispatched, enqueued, song_calls,
                   gated_out, last_op>>

\* the at_minute rules tried for rule 1: minute 59 or 0, any day or Monday only
AtMinuteRuleChoices ==
    {Rule("at_minute", "jingles", 0, <<m>>, days, NoTime, NoTime, 1, TRUE) :
        m \in {MinutesPerHour - 1, 0}, days \in {AllDays, {0}}}

\* the interval rules tried for rule 2: 1 or 2 minutes, ungated or 23:59:00-23:59:59
IntervalRuleChoices ==
    {Rule("interval", "random-moderation", M, NoMinute, AllDays, range[1], range[2], 2, TRUE) :
        M \in 1..2,
        range \in {<<NoTime, NoTime>>,
                   <<<<SecondsPerDay - SecondsPerMinute>>, <<SecondsPerDay - 1>>>>}}

\* rule 3: an after_songs rule, which the evaluator leaves to the poller
EvalSongRule ==
    Rule("after_songs", "jingles", 2, NoMinute, AllDays, NoTime, NoTime, 3, TRUE)

EvalInit ==
    /\ now = EvalStartTime
    /\ ticks = 0
    /\ \E r1 \in AtMinuteRuleChoices, r2 \in IntervalRuleChoices :
            rules = <<r1, r2, EvalSongRule>>
    /\ system_state = <<>>
    /\ catalog = InitialCatalog
    /\ now_playing = <<>>
    /\ play_history = <<>>
    /\ schedules = <<>>
    /\ engine_meta = <<>>
    /\ changes = 0
    /\ pushes = {}
    /\ sent = <<>>
    /\ dispatched = <<>>
    /\ enqueued = <<>>
    /\ song_calls = 0
    /\ gated_out = {}
    /\ last_op = NoOp
    /\ channel = Idle
    /\ jobs = NoJobs

NextEval ==
    \/ check_rotation_rules
    \/ EvalTick

SpecEval == EvalInit /\ [][NextEval]_vars

\* the dispatches of rule id, as positions of the dispatch record
DispatchesOf(id) == {j \in DOMAIN dispatched : dispatched[j].rule = id}

\* C3: an at_minute rule fires at most once in a calendar hour, however many
\* check_rotation_rules ticks of that hour see the matching minute.
C3_AtMostOncePerHour ==
    \A id \in DOMAIN rules :
        rules[id].rule_type = "at_minute" =>
            \A i, j \in DispatchesOf(id) :
                i # j => dispatched[i].at \div SecondsPerHour # dispatched[j].at \div SecondsPerHour

\* C3 witness: the rule fired earlier in this hour, and the evaluator has just
\* run again at a later time in the matching minute of the same hour
C3_Witness ==
    /\ rules[1].rule_type = "at_minute"
    /\ last_op.op = "rotation"
    /\ sent = <<>>
    /\ minute_of(now) = rules[1].minute_of_hour[1]
    /\ GatePasses(rules[1], now)
    /\ \E i \in DispatchesOf(1) :
            /\ dispatched[i].at < now
            /\ dispatched[i].at \div SecondsPerHour = now \div SecondsPerHour

\* an interval rule with interval_value > 0
IsIntervalRule(id) ==
    rules[id].rule_type = "interval" /\ rules[id].is_active /\ rules[id].interval_value > 0

\* the rotation_check job has run at the present clock reading
EvaluatedNow == last_op.op = "rotation" /\ last_op.at = now

\* C4: an interval rule with M > 0 and no stored last-trigger fires in the first
\* tick in which it passes gating (after a tick in which it passes gating it has
\* fired, in that tick or before), and any two fires of it are at least M minutes
\* of the clock apart.
C4_IntervalSpacing ==
    \A id \in DOMAIN rules :
        IsIntervalRule(id) =>
            /\ \A i, j \in DispatchesOf(id) :
                    i < j => dispatched[j].at - dispatched[i].at
                                >= rules[id].interval_value * SecondsPerMinute
            /\ (EvaluatedNow /\ GatePasses(rules[id], now)) =>
                    \E i \in DispatchesOf(id) : dispatched[i].at <= now

\* C4 witness: a 1-minute rule that fired in its first tick and again exactly one
\* minute later, the ticks in between not firing
C4_Witness ==
    /\ IsIntervalRule(2)
    /\ rules[2].interval_value = 1
    /\ rules[2].time_start = NoTime
    /\ Cardinality(DispatchesOf(2)) = 2
    /\ \E i, j \in DispatchesOf(2) :
            /\ dispatched[i].at = EvalStartTime
            /\ dispatched[j].at = EvalStartTime + SecondsPerMinute
    /\ last_op.op = "rotation"

\* ---------------------------------------------------------- Schedule Runner

\* schedule.show of a schedule whose show row is gone
NoShow == 0

\* ShowItem rows of the shows: position and the path of the item's audio file
\* (<<>> when the item has none); show 3 has no item with an audio file
ShowItems(show_id) ==
    IF show_id = 1
    THEN {[position |-> 2, path |-> PathA], [position |-> 1, path |-> PathM],
          [position |-> 3, path |-> <<>>]}
    ELSE IF show_id = 2 THEN {[position |-> 1, path |-> PathJ]}
    ELSE IF show_id = 3 THEN {[position |-> 1, path |-> <<>>]}
    ELSE {}

RECURSIVE ByPosition_descending(_)
\* an ordering of the items by falling position
ByPosition_descending(items) ==
    IF items = {} THEN <<>>
    ELSE LET m == CHOOSE x \in items : \A y \in items : x.position >= y.position
         IN  <<m>> \o ByPosition_descending(items \ {m})

RECURSIVE ByPosition(_)
\* show.items.order_by('position')
ByPosition(items) ==
    IF items = {} THEN <<>>
    ELSE LET m == CHOOSE x \in items : \A y \in items : x.position <= y.position
         IN  <<m>> \o ByPosition(items \ {m})

NoRun == <<>>

\* a query that also returns the active rows whose time has passed
InWindow_overdue(schedule, t) ==
    /\ schedule.is_active
    /\ schedule.scheduled_time <= t + WindowSeconds

\* the rows the query of check_scheduled_shows returns at time t
InWindow(schedule, t) ==
    /\ schedule.is_active
    /\ schedule.scheduled_time >= t - WindowSeconds
    /\ schedule.scheduled_time <= t + WindowSeconds

\* the checks of the loop body that skip a schedule
RanRecently(schedule, t) ==
    schedule.last_run # NoRun /\ t - schedule.last_run[1] < RecentRunSeconds
WrongWeekday(schedule, t) ==
    /\ schedule.repeat_type = "weekly"
    /\ schedule.days_of_week # {}
    /\ weekday(t) \notin schedule.days_of_week

\* a repeat handling that does not advance a 'daily' schedule
AfterRun_daily_stays(schedule, t) ==
    [schedule EXCEPT
        !.last_run = <<t>>,
        !.scheduled_time = IF schedule.repeat_type = "weekly"
                           THEN @ + DaysPerWeek * SecondsPerDay
                           ELSE @,
        !.is_active = IF schedule.repeat_type = "once" THEN FALSE ELSE @]

\* a repeat handling that leaves a 'once' schedule active
AfterRun_stays_active(schedule, t) ==
    [schedule EXCEPT
        !.last_run = <<t>>,
        !.scheduled_time = IF schedule.repeat_type = "daily" THEN @ + SecondsPerDay
                           ELSE IF schedule.repeat_type = "weekly"
                                THEN @ + DaysPerWeek * SecondsPerDay
                           ELSE @]

\* the row after a run: last_run set, scheduled_time advanced or the row deactivated
AfterRun(schedule, t) ==
    [schedule EXCEPT
        !.last_run = <<t>>,
        !.scheduled_time = IF schedule.repeat_type = "daily" THEN @ + SecondsPerDay
                           ELSE IF schedule.repeat_type = "weekly"
                                THEN @ + DaysPerWeek * SecondsPerDay
                           ELSE @,
        !.is_active = IF schedule.repeat_type = "once" THEN FALSE ELSE @]

\* the items of a show that have an audio file, in position order; none when
\* schedule.show is None
ItemsToQueue(show_id) ==
    IF show_id = NoShow THEN <<>>
    ELSE SelectSeq(ByPosition(ShowItems(show_id)), LAMBDA item : item.path # <<>>)

\* whether the loop body of check_scheduled_shows runs schedule id at time t
ScheduleRuns(id, t) ==
    /\ InWindow(schedules[id], t)
    /\ ~RanRecently(schedules[id], t)
    /\ ~WrongWeekday(schedules[id], t)

RECURSIVE ScheduleLoop(_, _, _, _)
\* the loop of check_scheduled_shows over the remaining schedule ids, the engine
\* answering r to the pushes of this run; the log entry of a push keeps the
\* scheduled_time it was made for and whether the engine took it
ScheduleLoop(acc, ids, t, r) ==
    IF ids = <<>> THEN acc
    ELSE LET id == Head(ids)
             items == ItemsToQueue(schedules[id].show_id)
             next ==
                IF ScheduleRuns(id, t)
                THEN [rows |-> [acc.rows EXCEPT ![id] = AfterRun(@, t)],
                      sent |-> acc.sent \o
                               [i \in DOMAIN items |-> queue_track(items[i].path, r).sent[1]],
                      enq |-> acc.enq \o
                              [i \in DOMAIN items |->
                                  [schedule |-> id, position |-> items[i].position,
                                   path |-> items[i].path, at |-> t,
                                   due |-> schedules[id].scheduled_time,
                                   accepted |-> Truthy(r) /\ ~HasError(r)]]]
                ELSE acc
         IN  ScheduleLoop(next, Tail(ids), t, r)

\* check_scheduled_shows(app), one run of the schedule_check job
check_scheduled_shows ==
    \E r \in CommandResponses :
    LET acc == ScheduleLoop([rows |-> schedules, sent |-> <<>>, enq |-> enqueued],
                            SetToSeq({id \in DOMAIN schedules : InWindow(schedules[id], now)}),
                            now, r)
    IN  /\ schedules' = acc.rows
        /\ sent' = acc.sent
        /\ enqueued' = acc.enq
        /\ last_op' = [op |-> "schedule", outcome |-> "", change |-> 0, at |-> now,
                       failed |-> {}]
        /\ UNCHANGED <<channel, jobs, now, ticks, rules, system_state, catalog, now_playing, play_history,
                       engine_meta, changes, pushes, dispatched, song_calls, gated_out>>

\* ------------------------------------------------------------ queue routes

\* the categories of app.config['CATEGORIES']
Categories ==
    {"music", "promos", "jingles", "ads", "random-moderation", "planned-moderation",
     "musicbeds", "misc"}

\* POST /api/queue for the catalog row filename
api_queue_track(filename) ==
    /\ filename \in DOMAIN catalog
    /\ sent' = IF catalog[filename].category \in {"random-moderation", "planned-moderation"}
               THEN <<Command("moderation_queue.push", catalog[filename].path)>>
               ELSE <<Command("queue.push", catalog[filename].path)>>
    /\ last_op' = [op |-> "api-queue", outcome |-> catalog[filename].category, change |-> 0,
                   at |-> now, failed |-> {}]
    /\ UNCHANGED <<channel, jobs, now, ticks, rules, system_state, catalog, now_playing, play_history,
                   schedules, engine_meta, changes, pushes, dispatched, enqueued, song_calls,
                   gated_out>>

\* POST /api/insert/<category>
api_insert_category(category) ==
    /\ category \in Categories
    /\ \E out \in InsertOutcomes(catalog, category) : sent' = out.sent
    /\ last_op' = [op |-> "api-insert", outcome |-> category, change |-> 0, at |-> now,
                   failed |-> {}]
    /\ UNCHANGED <<channel, jobs, now, ticks, rules, system_state, catalog, now_playing, play_history,
                   schedules, engine_meta, changes, pushes, dispatched, enqueued, song_calls,
                   gated_out>>

\* the clock advances to a later check: by 30 seconds, or once by a day or a week
SchedTick ==
    /\ ticks < MaxSchedTicks
    /\ ticks' = ticks + 1
    /\ \E step \in {RotationCheckSeconds, SecondsPerDay, DaysPerWeek * SecondsPerDay} :
          /\ step > RotationCheckSeconds => now < StartTime + SecondsPerDay
          /\ now' = now + step
    /\ UNCHANGED <<channel, jobs, rules, system_state, catalog, now_playing, play_history, schedules,
                   engine_meta, changes, pushes, sent, dispatched, enqueued, song_calls,
                   gated_out, last_op>>

Schedule(show_id, scheduled_time, repeat_type, days) ==
    [show_id |-> show_id, scheduled_time |-> scheduled_time, repeat_type |-> repeat_type,
     days_of_week |-> days, is_active |-> TRUE, last_run |-> NoRun]

\* schedule 1: once, due one or two ticks after the start, for show 1, or due
\* two ticks after the start for a show without queueable items or a missing show
OnceScheduleChoices ==
    {Schedule(1, StartTime + k * RotationCheckSeconds, "once", {}) : k \in 1..2} \cup
    {Schedule(show_id, StartTime + WindowSeconds, "once", {}) : show_id \in {NoShow, 3}}

\* schedule 2: show 2 daily, or weekly on any day, on Mondays or on Tuesdays
RepeatScheduleChoices ==
    {Schedule(2, StartTime + WindowSeconds, "daily", {})} \cup
    {Schedule(2, StartTime + WindowSeconds, "weekly", days) : days \in {{}, {0}, {1}}}

SchedInit ==
    /\ now = StartTime
    /\ ticks = 0
    /\ rules = <<>>
    /\ system_state = <<>>
    /\ catalog = InitialCatalog
    /\ now_playing = <<>>
    /\ play_history = <<>>
    /\ \E s1 \in OnceScheduleChoices, s2 \in RepeatScheduleChoices : schedules = <<s1, s2>>
    /\ engine_meta = <<>>
    /\ changes = 0
    /\ pushes = {}
    /\ sent = <<>>
    /\ dispatched = <<>>
    /\ enqueued = <<>>
    /\ song_calls = 0
    /\ gated_out = {}
    /\ last_op = NoOp
    /\ channel = Idle
    /\ jobs = NoJobs

\* the schedule_check job over time
NextSched ==
    \/ check_scheduled_shows
    \/ SchedTick

SpecSched == SchedInit /\ [][NextSched]_vars

\* everything that enqueues a file, at one instant: the queue routes and the
\* schedule runner
NextQueue ==
    \/ check_scheduled_shows
    \/ \E filename \in DOMAIN catalog : api_queue_track(filename)
    \/ \E category \in Categories : api_insert_category(category)

SpecQueue == SchedInit /\ [][NextQueue]_vars

\* ------------------------------------------------ claims on the queue routes

\* the commands of the last operation that carry a file path
FileCommands == {i \in DOMAIN sent : sent[i].arg # NoArg}

\* the last operation enqueued for a category: insert_from_category through
\* /api/insert/<category>, or the /api/queue handler
EnqueuedForCategory == last_op.op \in {"api-insert", "api-queue"}

\* C8: when insert_from_category or the /api/queue handler enqueues a file for
\* a category, the command carrying the file's path is 'moderation_queue.push'
\* for the categories random-moderation and planned-moderation and 'queue.push'
\* for every other category.
C8_QueueRouting ==
    EnqueuedForCategory =>
        \A i \in FileCommands :
            /\ last_op.outcome \in {"random-moderation", "planned-moderation"}
                  => sent[i].name = "moderation_queue.push"
            /\ last_op.outcome \notin {"random-moderation", "planned-moderation"}
                  => sent[i].name = "queue.push"

\* the handler of /api/queue pushed the catalogued moderation file to the
\* moderation queue
C8_Witness ==
    /\ last_op.op = "api-queue"
    /\ last_op.outcome = "random-moderation"
    /\ sent = <<Command("moderation_queue.push", PathM)>>

\* C9: every command the core sends to enqueue a file (insert_from_category,
\* its fallback after a failed push included, and the schedule runner's
\* queue_track) is 'queue.push <path>' or 'moderation_queue.push <path>'.
C9_OnlyQueuePushCommands ==
    last_op.op \in {"api-insert", "schedule"} =>
        \A i \in DOMAIN sent :
            /\ sent[i].name \in {"queue.push", "moderation_queue.push"}
            /\ sent[i].arg # NoArg

\* the enqueue log entries of one schedule
EnqueuedBy(id) == {i \in DOMAIN enqueued : enqueued[i].schedule = id}

\* C10: a 'once' schedule that has run does not enqueue its show items again
\* in any later run of check_scheduled_shows: every item position of the
\* schedule is enqueued at one instant only.
C10_OnceRunsOnce ==
    \A id \in DOMAIN schedules :
        schedules[id].repeat_type = "once" =>
            \A i, j \in EnqueuedBy(id) : enqueued[i].at = enqueued[j].at

\* the 'once' schedule ran, and a later check_scheduled_shows run found its
\* scheduled_time inside the window with the recent-run guard already expired
C10_Witness ==
    \E id \in DOMAIN schedules :
        /\ schedules[id].repeat_type = "once"
        /\ schedules[id].last_run # NoRun
        /\ EnqueuedBy(id) # {}
        /\ last_op.op = "schedule"
        /\ last_op.at = now
        /\ now - schedules[id].last_run[1] >= RecentRunSeconds
        /\ schedules[id].scheduled_time >= now - WindowSeconds
        /\ schedules[id].scheduled_time <= now + WindowSeconds

\* --------------------------------------------- claims on the schedule runner

\* the schedule's row was written by a run (last_run changes in this step)
Fired(id) == schedules'[id].last_run # schedules[id].last_run

\* C11: no schedule fires twice for the same scheduled_time value: the run that
\* fires a schedule advances a 'daily' one by exactly one day, a 'weekly' one
\* by exactly one week and deactivates a 'once' one, and all pushes made for one
\* scheduled_time value of a schedule are made in one run.
C11_OncePerScheduledTime ==
    /\ [](\A i, j \in DOMAIN enqueued :
            (enqueued[i].schedule = enqueued[j].schedule /\ enqueued[i].due = enqueued[j].due)
                => enqueued[i].at = enqueued[j].at)
    /\ [][\A id \in DOMAIN schedules :
            Fired(id) =>
                /\ schedules[id].repeat_type = "daily" =>
                      schedules'[id].scheduled_time = schedules[id].scheduled_time + SecondsPerDay
                /\ schedules[id].repeat_type = "weekly" =>
                      schedules'[id].scheduled_time =
                          schedules[id].scheduled_time + DaysPerWeek * SecondsPerDay
                /\ schedules[id].repeat_type = "once" => ~schedules'[id].is_active
                /\ \A i \in EnqueuedBy(id) :
                      enqueued[i].due # schedules[id].scheduled_time]_vars

\* a repeating schedule fired for two scheduled_time values, the second its
\* first one advanced by a day or by a week
C11_Witness ==
    \E id \in DOMAIN schedules : \E i, j \in EnqueuedBy(id) :
        /\ schedules[id].repeat_type \in {"daily", "weekly"}
        /\ enqueued[j].due > enqueued[i].due
        /\ enqueued[j].at > enqueued[i].at
        /\ schedules[id].scheduled_time > enqueued[j].due

\* C12: last_run is set only after the schedule's items were enqueued in the
\* same run: a schedule whose last_run is set has a push the engine took, made
\* in the run that set it; a schedule for which nothing was enqueued keeps
\* last_run unset and is neither deactivated nor advanced.
C12_LastRunOnlyAfterEnqueue ==
    \A id \in DOMAIN schedules :
        schedules[id].last_run # NoRun =>
            \E i \in EnqueuedBy(id) :
                enqueued[i].at = schedules[id].last_run[1] /\ enqueued[i].accepted

\* ---------------------------------------------------------- Control Channel

\* what the engine's bytes contain, as far as the callers look: other text, the
\* error marker, the terminator, a line of digits (a request id)
Tokens == {"text", "ERROR", "END", "rid"}
Chunks == (SUBSET Tokens) \ {{}}

\* response.decode().strip() of the accumulated buffer
Decoded(buf) ==
    IF buf = {} THEN ResponseEmpty
    ELSE IF "ERROR" \in buf THEN ResponseError
    ELSE IF "rid" \in buf THEN Response("ids", <<>>)
    ELSE ResponseOk

\* the request ids get_queue_status reads from a queue listing
HasRequestIds(r) == Truthy(r) /\ ~HasError(r) /\ r.kind = "ids"

\* how one send_liquidsoap_command call can end, and what it returns:
\* an exception (connect refused, send or recv error) gives None; the
\* terminator, a closed connection and a recv timeout give the decoded buffer
SendResult(how, buf) ==
    IF how \in {"refused", "reset"} THEN ResponseNone ELSE Decoded(buf)

NoCommand == Command("", NoArg)

\* the local state of a wrapper: its phase, the next command it sends (when
\* not done), its result (when done), and what it has collected so far
Local(phase, step, cmd, done, result, acc, first) ==
    [phase |-> phase, step |-> step, cmd |-> cmd, done |-> done, result |-> result,
     acc |-> acc, first |-> first]
Returns(result) == Local("return", 0, NoCommand, TRUE, result, TRUE, ResponseNone)
Sends(phase, step, cmd, acc, first) == Local(phase, step, cmd, FALSE, FALSE, acc, first)

\* the settings every crossfade command is sent for
CrossfadeCommands ==
    <<"crossfade.music_fade_in", "crossfade.music_fade_out", "crossfade.jingle_fade_in",
      "crossfade.jingle_fade_out", "crossfade.moderation_fade_in",
      "crossfade.moderation_fade_out">>

\* the wrappers of the control channel that are called here
Wrappers ==
    {"skip_current_track", "queue_track", "clear_queue", "set_bed_enabled",
     "clear_moderation_queue", "update_crossfade_settings", "insert_from_category"}

\* the category insert_from_category is called for here, and the file it picks
InsertCategory == "jingles"
InsertPick == "j.mp3"

\* the value a setter sends after its command name
SettingValue == <<"value">>

\* the first command of a wrapper call
WrapperStart(w) ==
    CASE w = "skip_current_track" ->
            Sends("skip", 1, Command("skip", NoArg), TRUE, ResponseNone)
      [] w = "queue_track" ->
            Sends("push", 1, queue_track(PathA, ResponseNone).sent[1], TRUE, ResponseNone)
      [] w = "clear_queue" ->
            Sends("queue", 1, Command("queue.queue", NoArg), FALSE, ResponseNone)
      [] w = "set_bed_enabled" ->
            Sends("set", 1, Command("bed.on", NoArg), TRUE, ResponseNone)
      [] w = "clear_moderation_queue" ->
            Sends("flush", 1, Command("moderation_queue.flush_and_skip", NoArg), TRUE,
                  ResponseNone)
      [] w = "update_crossfade_settings" ->
            Sends("fade", 1, Command(CrossfadeCommands[1], SettingValue), TRUE, ResponseNone)
      [] OTHER ->
            Sends("first", 1,
                  insert_from_category(catalog, InsertCategory, InsertPick, ResponseNone,
                                       ResponseNone).sent[1],
                  TRUE, ResponseNone)

\* clear_queue as bound after module load: while get_queue_status(): skip_current_track();
\* acc is whether get_queue_status has found an item so far in this round
ClearQueueStep(local, r) ==
    CASE local.phase = "queue" ->
            IF HasRequestIds(r)
            THEN Sends("queue_meta", 1, Command("request.metadata", <<"rid">>), TRUE, ResponseNone)
            ELSE Sends("moderation", 1, Command("moderation_queue.queue", NoArg), FALSE, ResponseNone)
      [] local.phase = "queue_meta" ->
            Sends("moderation", 1, Command("moderation_queue.queue", NoArg), TRUE, ResponseNone)
      [] local.phase = "moderation" ->
            IF HasRequestIds(r)
            THEN Sends("moderation_meta", 1, Command("request.metadata", <<"rid">>), TRUE, ResponseNone)
            ELSE IF local.acc THEN Sends("skip", 1, Command("skip", NoArg), TRUE, ResponseNone)
            ELSE Returns(TRUE)
      [] local.phase = "moderation_meta" ->
            Sends("skip", 1, Command("skip", NoArg), TRUE, ResponseNone)
      [] OTHER ->
            Sends("queue", 1, Command("queue.queue", NoArg), FALSE, ResponseNone)

\* what a wrapper does with the response r to the command it sent
WrapperStep(w, local, r) ==
    CASE w = "skip_current_track" -> Returns(~IsNone(r))
      [] w = "queue_track" -> Returns(queue_track(PathA, r).ok)
      [] w = "clear_queue" -> ClearQueueStep(local, r)
      [] w \in {"set_bed_enabled", "clear_moderation_queue"} ->
            Returns(~IsNone(r) /\ ~HasError(r))
      [] w = "update_crossfade_settings" ->
            IF local.step < Len(CrossfadeCommands)
            THEN Sends("fade", local.step + 1,
                       Command(CrossfadeCommands[local.step + 1], SettingValue),
                       local.acc /\ ~IsNone(r), ResponseNone)
            ELSE Returns(local.acc /\ ~IsNone(r))
      [] OTHER ->
            IF local.phase = "first"
            THEN LET out == insert_from_category(catalog, InsertCategory, InsertPick, r,
                                                 ResponseNone)
                 IN  IF Len(out.sent) = 1 THEN Returns(out.ok)
                     ELSE Sends("fallback", 2, out.sent[2], TRUE, r)
            ELSE Returns(insert_from_category(catalog, InsertCategory, InsertPick,
                                              local.first, r).ok)

\* no send_liquidsoap_command call has ended yet in this wrapper call
NoCall == [how |-> "", response |-> ResponseNone, had_end |-> FALSE]

\* everything but the control channel
others ==
    <<now, ticks, rules, system_state, catalog, now_playing, play_history, schedules,
      engine_meta, changes, pushes, sent, dispatched, enqueued, song_calls, gated_out,
      last_op, jobs>>

\* a caller invokes wrapper w
Call(w) ==
    /\ channel.pc \in {"idle", "done"}
    /\ channel' = [pc |-> "connect", wrapper |-> w, local |-> WrapperStart(w),
                   commands |-> <<>>, buf |-> {}, turn |-> 0, failed |-> FALSE,
                   last |-> NoCall]
    /\ UNCHANGED others

\* the channel after a send_liquidsoap_command call ended the way `how` with
\* buf accumulated: the wrapper takes the returned value and goes on or returns
Completed(how, buf) ==
    LET r == SendResult(how, buf)
        local == WrapperStep(channel.wrapper, channel.local, r)
    IN  [channel EXCEPT
            !.pc = IF local.done THEN "done" ELSE "connect",
            !.local = local,
            !.buf = {},
            !.failed = @ \/ IsNone(r) \/ HasError(r),
            !.last = [how |-> how, response |-> r, had_end |-> "END" \in buf]]

\* send_liquidsoap_command(command) up to sendall: the connection is made and
\* the command sent, or connect raises; commands keeps every command passed
Connect ==
    /\ channel.pc = "connect"
    /\ LET cmds == Append(channel.commands, channel.local.cmd)
       IN  \/ channel' = [channel EXCEPT !.pc = "recv", !.commands = cmds]
           \/ channel' = [Completed("refused", {}) EXCEPT !.commands = cmds]
    /\ UNCHANGED others

\* one sock.recv(4096) of the read loop: data, b'' (closed), socket.timeout, or
\* another exception; turn counts the recv calls modulo 2
Recv ==
    /\ channel.pc = "recv"
    /\ \/ \E chunk \in Chunks :
            /\ "rid" \in chunk => Len(channel.commands) < MaxCommands
            /\ channel' = IF "END" \in channel.buf \cup chunk
                          THEN Completed("end", channel.buf \cup chunk)
                          ELSE [channel EXCEPT !.buf = @ \cup chunk, !.turn = 1 - @]
       \/ \E how \in {"closed", "timeout", "reset"} :
            channel' = Completed(how, channel.buf)
    /\ UNCHANGED others

ChannelInit ==
    /\ now = StartTime
    /\ ticks = 0
    /\ rules = <<>>
    /\ system_state = <<>>
    /\ catalog = InitialCatalog
    /\ now_playing = <<>>
    /\ play_history = <<>>
    /\ schedules = <<>>
    /\ engine_meta = <<>>
    /\ changes = 0
    /\ pushes = {}
    /\ sent = <<>>
    /\ dispatched = <<>>
    /\ enqueued = <<>>
    /\ song_calls = 0
    /\ gated_out = {}
    /\ last_op = NoOp
    /\ channel = Idle
    /\ jobs = NoJobs

NextChannel ==
    \/ \E w \in Wrappers : Call(w)
    \/ Connect
    \/ Recv

\* every recv returns within the socket timeout, so the read loop keeps stepping
SpecChannel == ChannelInit /\ [][NextChannel]_vars /\ WF_vars(Recv) /\ WF_vars(Connect)

\* ------------------------------------------- claims on the control channel

\* a send_liquidsoap_command call of the running wrapper has ended
CallEnded == channel.pc # "idle" /\ channel.last.how # ""

\* C13: send_liquidsoap_command returns None when the connection cannot be
\* established, when the read times out before 'END' was received and when the
\* engine closes the connection before any terminator; it returns a string only
\* when 'END' appeared in the accumulated buffer.
C13_FailureUnlessTerminated ==
    CallEnded =>
        /\ (\/ channel.last.how = "refused"
            \/ channel.last.how \in {"timeout", "closed"} /\ ~channel.last.had_end)
              => IsNone(channel.last.response)
        /\ ~IsNone(channel.last.response) => channel.last.had_end

\* C14: every call of send_liquidsoap_command terminates whatever the engine
\* does: a call that is in its read loop leaves it.
C14_EveryCallTerminates == (channel.pc = "recv") ~> (channel.pc # "recv")

\* C15: a wrapper that returns a true result has had no response that was a
\* failure (None) or contained 'ERROR'.
C15_TrueResultImpliesNoFailure ==
    (channel.pc = "done" /\ channel.local.result) => ~channel.failed

\* C16: one insert_from_category call sends at most one command; when that
\* command fails, no second one is sent and the call reports failure.
C16_NoRetry ==
    (channel.pc # "idle" /\ channel.wrapper = "insert_from_category") =>
        /\ Len(channel.commands) <= 1
        /\ (channel.pc = "done" /\ channel.failed) => ~channel.local.result

\* C17: clear_queue, as bound after module load, is forwarded as the single
\* command 'queue.flush_and_skip' and skip as the single command 'queue.skip'.
C17_SingleForwardedCommand ==
    channel.pc = "done" =>
        /\ channel.wrapper = "clear_queue" =>
              channel.commands = <<Command("queue.flush_and_skip", NoArg)>>
        /\ channel.wrapper = "skip_current_track" =>
              channel.commands = <<Command("queue.skip", NoArg)>>

\* ----------------------------------------------- failure isolation of rules

\* rule 1 of the isolation runs: a rule of priority 3 whose days_of_week holds
\* a token that is no number
MalformedRuleChoices ==
    {Rule("at_minute", "jingles", 0, <<MinutesPerHour - 1>>, {0, 1, MalformedDay}, NoTime,
          NoTime, 3, TRUE),
     Rule("interval", "promos", 1, NoMinute, {0, 1, MalformedDay}, NoTime, NoTime, 3, TRUE)}

IsolateInit ==
    /\ now = EvalStartTime
    /\ ticks = 0
    /\ \E r1 \in MalformedRuleChoices, r2 \in IntervalRuleChoices :
            rules = <<r1, r2, EvalSongRule>>
    /\ system_state = <<>>
    /\ catalog = InitialCatalog
    /\ now_playing = <<>>
    /\ play_history = <<>>
    /\ schedules = <<>>
    /\ engine_meta = <<>>
    /\ changes = 0
    /\ pushes = {}
    /\ sent = <<>>
    /\ dispatched = <<>>
    /\ enqueued = <<>>
    /\ song_calls = 0
    /\ gated_out = {}
    /\ last_op = NoOp
    /\ channel = Idle
    /\ jobs = NoJobs

SpecIsolate == IsolateInit /\ [][NextEval]_vars

\* C19: a rule whose processing fails does not keep the remaining active rules
\* of the tick from being evaluated: after a run of check_rotation_rules every
\* well-formed interval rule that passes gating has fired, in that run or before.
C19_RemainingRulesEvaluated ==
    \A id \in DOMAIN rules :
        (IsIntervalRule(id) /\ ~DaysMalformed(rules[id]) /\ EvaluatedNow
            /\ GatePasses(rules[id], now))
            => \E i \in DispatchesOf(id) : dispatched[i].at <= now

\* ------------------------------------- evaluator ticks among track changes

\* the evaluator's rules with the after_songs rule, from the poller's start
MixedInit ==
    /\ now = StartTime
    /\ ticks = 0
    /\ rules = <<Rule("at_minute", "jingles", 0, <<MinutesPerHour - 1>>, AllDays, NoTime,
                      NoTime, 1, TRUE),
                 Rule("interval", "random-moderation", 1, NoMinute, AllDays, NoTime, NoTime,
                      2, TRUE),
                 EvalSongRule>>
    /\ system_state = <<>>
    /\ catalog = InitialCatalog
    /\ now_playing = <<>>
    /\ play_history = <<>>
    /\ schedules = <<>>
    /\ engine_meta = <<>>
    /\ changes = 0
    /\ pushes = {}
    /\ sent = <<>>
    /\ dispatched = <<>>
    /\ enqueued = <<>>
    /\ song_calls = 0
    /\ gated_out = {}
    /\ last_op = NoOp
    /\ channel = Idle
    /\ jobs = NoJobs

\* a track change of an engine that posts no pushes, among evaluator runs
EngineTrackChangeMixed ==
    /\ changes < MaxMixedChanges
    /\ \E path \in EnginePaths : TrackChange(path, {})

NextMixed ==
    \/ EngineTrackChangeMixed
    \/ poll_current_track
    \/ check_rotation_rules
    \/ Tick

SpecMixed == MixedInit /\ [][NextMixed]_vars

\* C18: an after_songs rule is driven by track changes only: every dispatch of
\* it was made by an increment_song_counter call, and with evaluator ticks
\* interleaved in any way its fires and its stored counter are those of the
\* increment_song_counter calls alone.
C18_SongRuleOnlyByTrackChange ==
    \A id \in DOMAIN rules :
        (rules[id].rule_type = "after_songs" /\ rules[id].is_active) =>
            /\ \A i \in DispatchesOf(id) : dispatched[i].call > 0
            /\ AlwaysGatedIn(id) =>
                  /\ DispatchCount(id) = song_calls \div rules[id].interval_value
                  /\ StoredCounter(id) = song_calls % rules[id].interval_value

\* the after_songs rule has fired on its second song, with an evaluator run that
\* dispatched another rule before it and an evaluator run as the last operation
C18_Witness ==
    /\ song_calls >= 2
    /\ DispatchCount(3) >= 1
    /\ last_op.op = "rotation"
    /\ \E i, j \in DOMAIN dispatched :
          i < j /\ dispatched[i].call = 0 /\ dispatched[j].rule = 3

\* ------------------------------------------- poller claims: category, frame

\* the persisted song counters, by rule
SongCounters(ss) == [id \in DOMAIN rules |-> SystemState_get(ss, SongCounterKey(id), NoValue)]

\* C22: a poll_current_track run that detects a track change whose resolved
\* category is not 'music' leaves every rule_{id}_song_counter unchanged and
\* fires no after_songs rule.
C22_OnlyMusicAdvancesCounters ==
    [][(poll_current_track /\ last_op'.outcome = "new"
            /\ Last(play_history').category # "music") =>
          /\ SongCounters(system_state') = SongCounters(system_state)
          /\ dispatched' = dispatched]_vars

MaxDeleteChanges == 2

\* rows with audio_file_id = file_id get audio_file_id = None
ClearFileReference(rows, file_id) ==
    [i \in DOMAIN rows |->
        IF rows[i].audio_file_id = file_id THEN [rows[i] EXCEPT !.audio_file_id = 0]
        ELSE rows[i]]

\* POST /files/delete/<file_id>: the references of PlayHistory and NowPlaying
\* to the file are cleared and its AudioFile row is deleted (the show items,
\* instant jingles and moderation bed it also clears are not part of the state)
delete_file(file_id) ==
    LET filename == CHOOSE f \in DOMAIN catalog : catalog[f].id = file_id
    IN  /\ \E f \in DOMAIN catalog : catalog[f].id = file_id
        /\ play_history' = ClearFileReference(play_history, file_id)
        /\ now_playing' = ClearFileReference(now_playing, file_id)
        /\ catalog' = [f \in DOMAIN catalog \ {filename} |-> catalog[f]]
        /\ sent' = <<>>
        /\ last_op' = [op |-> "delete_file", outcome |-> "", change |-> 0, at |-> now,
                       failed |-> {}]
        /\ UNCHANGED <<channel, jobs, now, ticks, rules, system_state, schedules, engine_meta,
                       changes, pushes, dispatched, enqueued, song_calls, gated_out>>

\* a track change in the behaviours with file deletion
EngineTrackChangeDelete ==
    /\ changes < MaxDeleteChanges
    /\ \E path \in EnginePaths : TrackChange(path, {})

NextDelete ==
    \/ EngineTrackChangeDelete
    \/ poll_current_track
    \/ \E file_id \in {InitialCatalog[f].id : f \in DOMAIN InitialCatalog} : delete_file(file_id)

SpecDelete == Init /\ [][NextDelete]_vars

\* C25: PlayHistory is append-only: every step of the program leaves the rows
\* that exist as they are, fields included, and only ever adds rows after them.
C25_PlayHistoryAppendOnly ==
    [][/\ Len(play_history') >= Len(play_history)
       /\ SubSeq(play_history', 1, Len(play_history)) = play_history]_vars

\* ------------------------------------------------------------ rule gating

\* bounds: clock advances and engine track changes in the gating behaviours
MaxGateTicks == 3
MaxGateChanges == 3

\* the clock at the start of the gating behaviours: Monday 23:59:00
GateStartTime == SecondsPerDay - 2 * RotationCheckSeconds

\* the gates tried: none; Tuesday only; 23:59:00-23:59:30; a range over
\* midnight, 23:59:30-00:00:30; and a time_start without a time_end
GateRangeChoices ==
    {<<AllDays, NoTime, NoTime>>,
     <<{1}, NoTime, NoTime>>,
     <<AllDays, <<SecondsPerDay - SecondsPerMinute>>, <<SecondsPerDay - RotationCheckSeconds>>>>,
     <<AllDays, <<SecondsPerDay - RotationCheckSeconds>>, <<RotationCheckSeconds>>>>,
     <<AllDays, <<SecondsPerDay - RotationCheckSeconds>>, NoTime>>}

\* rule 1 of the gating behaviours: every minute, or at minute 59
GatedTimerRules(gate) ==
    {Rule("interval", "jingles", 1, NoMinute, gate[1], gate[2], gate[3], 2, TRUE),
     Rule("at_minute", "jingles", 0, <<MinutesPerHour - 1>>, gate[1], gate[2], gate[3], 2, TRUE)}

\* rule 2 of the gating behaviours: after every second song
GatedSongRule(gate) ==
    Rule("after_songs", "jingles", 2, NoMinute, gate[1], gate[2], gate[3], 1, TRUE)

GateInit ==
    /\ now = GateStartTime
    /\ ticks = 0
    /\ \E gate \in GateRangeChoices : \E r1 \in GatedTimerRules(gate) :
            rules = <<r1, GatedSongRule(gate)>>
    /\ system_state = <<>>
    /\ catalog = InitialCatalog
    /\ now_playing = <<>>
    /\ play_history = <<>>
    /\ schedules = <<>>
    /\ engine_meta = <<>>
    /\ changes = 0
    /\ pushes = {}
    /\ sent = <<>>
    /\ dispatched = <<>>
    /\ enqueued = <<>>
    /\ song_calls = 0
    /\ gated_out = {}
    /\ last_op = NoOp
    /\ channel = Idle
    /\ jobs = NoJobs

\* the clock advances by one period of the rotation_check job
GateTick ==
    /\ ticks < MaxGateTicks
    /\ ticks' = ticks + 1
    /\ now' = now + RotationCheckSeconds
    /\ UNCHANGED <<channel, jobs, rules, system_state, catalog, now_playing, play_history, schedules,
                   engine_meta, changes, pushes, sent, dispatched, enqueued, song_calls,
                   gated_out, last_op>>

\* the engine starts a music track
EngineTrackChangeGate ==
    /\ changes < MaxGateChanges
    /\ TrackChange(PathA, {})

NextGate ==
    \/ EngineTrackChangeGate
    \/ poll_current_track
    \/ check_rotation_rules
    \/ GateTick

SpecGate == GateInit /\ [][NextGate]_vars

\* the gating condition as stated: the weekday is one of the rule's days and,
\* when both ends of the range are set, the time of day lies in the closed range
InsideGate(id, t) ==
    /\ weekday(t) \in rules[id].days_of_week
    /\ (rules[id].time_start # NoTime /\ rules[id].time_end # NoTime) =>
          /\ rules[id].time_start[1] <= time_of_day(t)
          /\ time_of_day(t) <= rules[id].time_end[1]

\* the persisted last-trigger and song counter of rule id
Cursors(ss, id) ==
    <<SystemState_get(ss, LastTriggerKey(id), NoValue),
      SystemState_get(ss, SongCounterKey(id), NoValue)>>

\* C26: a run of check_rotation_rules or of increment_song_counter made while a
\* rule is outside its gate (weekday not in days_of_week, or time of day outside
\* the closed range time_start..time_end when both are set) neither dispatches
\* the rule nor changes its persisted last-trigger or song counter.
C26_GatedOutRuleUntouched ==
    [][\A id \in DOMAIN rules :
          ~InsideGate(id, now) =>
              /\ Cursors(system_state', id) = Cursors(system_state, id)
              /\ DispatchesOf(id)' = DispatchesOf(id)]_vars

\* C26 witness: under the range 23:59:00-23:59:30 the song counter was written
\* at time_start exactly and rule 1 was dispatched at time_end exactly
C26_Witness ==
    /\ rules[1].time_start # NoTime /\ rules[1].time_end # NoTime
    /\ rules[1].time_start[1] < rules[1].time_end[1]
    /\ now = rules[1].time_end[1]
    /\ last_op.op = "rotation" /\ last_op.at = now
    /\ \E j \in DispatchesOf(1) : dispatched[j].at = now
    /\ StoredCounter(2) = 1
    /\ song_calls = 1
    /\ \E i \in DOMAIN now_playing : now_playing[i].started_at = rules[2].time_start

\* a rule whose time range runs over midnight
CrossesMidnight(id) ==
    /\ rules[id].time_start # NoTime /\ rules[id].time_end # NoTime
    /\ rules[id].time_start[1] > rules[id].time_end[1]

\* C27: a rule whose time range crosses midnight (time_start > time_end) is
\* never dispatched and its last-trigger and song counter are never written.
C27_MidnightRangeNeverPasses ==
    \A id \in DOMAIN rules :
        CrossesMidnight(id) =>
            /\ DispatchesOf(id) = {}
            /\ Cursors(system_state, id) = <<NoValue, NoValue>>

\* C27 witness: with the range 23:59:30-00:00:30 on both rules, the evaluator has
\* just run at 00:00:30 and two songs have been counted, the last after midnight
C27_Witness ==
    /\ CrossesMidnight(1) /\ CrossesMidnight(2)
    /\ time_of_day(now) = rules[1].time_end[1]
    /\ last_op.op = "rotation" /\ last_op.at = now
    /\ song_calls = 2
    /\ 2 \in gated_out
    /\ \E i \in DOMAIN now_playing : now_playing[i].started_at = <<now>>

\* ------------------------------------------------- evaluator claims: order

\* rule id is due at t by the stored cursor: inside its gate, and its at_minute
\* or interval condition holds
Eligible(id, t) ==
    LET last == SystemState_get(system_state, LastTriggerKey(id), NoValue)
    IN  /\ rules[id].is_active
        /\ InsideGate(id, t)
        /\ \/ rules[id].rule_type = "at_minute" /\ AtMinuteShouldTrigger(rules[id], last, t)
           \/ rules[id].rule_type = "interval" /\ IntervalShouldTrigger(rules[id], last, t)

\* the dispatcher invocations a step adds
NewDispatches == SubSeq(dispatched', Len(dispatched) + 1, Len(dispatched'))

\* C28: one check_rotation_rules tick invokes the dispatcher exactly once for
\* every active rule that is eligible, however many rules are eligible in that
\* tick, and never for another rule; the invocations are made in descending
\* priority order.
C28_EveryEligibleRuleFiresInOrder ==
    [][check_rotation_rules =>
          LET eligible == {id \in DOMAIN rules : Eligible(id, now)}
          IN  /\ {NewDispatches[i].rule : i \in DOMAIN NewDispatches} = eligible
              /\ Len(NewDispatches) = Cardinality(eligible)
              /\ \A i, j \in DOMAIN NewDispatches :
                    i < j => rules[NewDispatches[i].rule].priority
                                >= rules[NewDispatches[j].rule].priority]_vars

\* C28 witness: one tick has just dispatched rule 2 (priority 2) and then rule 1
\* (priority 1)
C28_Witness ==
    /\ last_op.op = "rotation" /\ last_op.at = now
    /\ rules[2].priority > rules[1].priority
    /\ \E i \in DOMAIN dispatched :
          /\ i + 1 \in DOMAIN dispatched
          /\ dispatched[i].rule = 2 /\ dispatched[i].at = now
          /\ dispatched[i + 1].rule = 1 /\ dispatched[i + 1].at = now

\* the cursor value a firing of rule id at t stores: the hour bucket, the
\* timestamp, or the counter reset to 0
AdvancedCursor(id, t) ==
    CASE rules[id].rule_type = "at_minute" -> <<strftime_hour(t), NoValue>>
      [] rules[id].rule_type = "interval" -> <<isoformat(t), NoValue>>
      [] OTHER -> <<NoValue, str(0)>>

\* C29: when the dispatcher call of a firing rule fails, the run leaves the
\* rule's cursor advanced all the same (hour bucket, timestamp, or counter 0),
\* and the run that follows does not dispatch the rule again in the same hour,
\* before the interval has elapsed, or on the next song.
C29_FailedDispatchAdvancesCursor ==
    [][/\ (check_rotation_rules \/ poll_current_track) =>
              \A id \in last_op'.failed : Cursors(system_state', id) = AdvancedCursor(id, now)
       /\ check_rotation_rules =>
              \A id \in last_op.failed :
                  \/ /\ rules[id].rule_type = "at_minute"
                     /\ now \div SecondsPerHour = last_op.at \div SecondsPerHour
                  \/ /\ rules[id].rule_type = "interval"
                     /\ now - last_op.at < rules[id].interval_value * SecondsPerMinute
                  => DispatchesOf(id)' = DispatchesOf(id)
       /\ poll_current_track =>
              \A id \in last_op.failed :
                  rules[id].rule_type = "after_songs" /\ rules[id].interval_value > 1
                      => DispatchesOf(id)' = DispatchesOf(id)]_vars

\* C29 witness: the tick that has just run fired the every-minute rule, the
\* dispatcher call failed, and the rule's timestamp is this tick's
C29_Witness ==
    /\ rules[1].rule_type = "interval"
    /\ last_op.op = "rotation" /\ last_op.at = now
    /\ 1 \in last_op.failed
    /\ \E j \in DispatchesOf(1) : dispatched[j].at = now
    /\ Cursors(system_state, 1) = <<isoformat(now), NoValue>>

\* ------------------------------------------------- poller claims: failures

\* C30: a poll_current_track run whose metadata command fails or returns
\* nothing, whose response contains 'ERROR', in which no section can be selected,
\* or whose selected section has no filename leaves last_track_id and every song
\* counter, NowPlaying, PlayHistory and the catalog's play counts as they were
\* and makes no dispatcher call.
C30_UnusablePollHasNoEffect ==
    [][(poll_current_track /\ last_op'.outcome \in {"failed", "no section", "no filename"}) =>
          /\ UNCHANGED <<system_state, now_playing, play_history, catalog, dispatched,
                         song_calls>>
          /\ sent' = <<MetadataCommand>>]_vars

\* C30 witness: with a second track on air that no poll has recorded yet, a poll
\* has just returned on a section without a filename
C30_Witness ==
    /\ last_op.op = "poll" /\ last_op.outcome = "no filename"
    /\ changes = 2
    /\ Len(play_history) = 1
    /\ ~CurrentIdentityStored
    /\ SystemState_get(system_state, LastTrackKey, NoTrackId) # NoTrackId

\* --------------------------------------------- poller: persistence errors

\* bound: engine track changes in the behaviours with persistence errors
MaxFaultChanges == 2

\* a poll that found a new track and was ended by a persistence error: raised by
\* the commit of SystemState.set('last_track_id', ...) when stored is FALSE, by a
\* later query or commit, up to that of NowPlaying.update, when it is TRUE; the
\* uncommitted play count is dropped with the session
PollRaises(metadata, stored) ==
    /\ system_state' = IF stored
                       THEN SystemState_set(system_state, LastTrackKey, TrackId(metadata))
                       ELSE system_state
    /\ sent' = <<MetadataCommand>>
    /\ last_op' = [op |-> "poll", outcome |-> "raised", change |-> metadata.on_air,
                   at |-> now, failed |-> {}]
    /\ UNCHANGED <<channel, jobs, now, ticks, rules, catalog, now_playing, play_history,
                   schedules, engine_meta, changes, pushes, dispatched, enqueued,
                   song_calls, gated_out>>

\* poll_current_track(app), a run in which the database raises
poll_current_track_raising ==
    LET best == BestSection(MetadataDump(engine_meta).sections)
    IN  /\ best # <<>>
        /\ ParseMetadata(best[1]).filename # <<>>
        /\ ~SameTrack(system_state, ParseMetadata(best[1]))
        /\ \E stored \in BOOLEAN : PollRaises(ParseMetadata(best[1]), stored)

\* a track change in the behaviours with persistence errors
EngineTrackChangeFault ==
    /\ changes < MaxFaultChanges
    /\ \E path \in EnginePaths : TrackChange(path, {})

NextFault ==
    \/ EngineTrackChangeFault
    \/ poll_current_track
    \/ poll_current_track_raising

SpecFault == Init /\ [][NextFault]_vars

\* C23: when a poll that detected a new track failed before NowPlaying and
\* PlayHistory were written, the next poll that reads the metadata of the same
\* still-playing track treats it as new and records it.
C23_FailedPollIsRetried ==
    [][(/\ poll_current_track
        /\ last_op.op = "poll" /\ last_op.outcome = "raised"
        /\ engine_meta[1].on_air = last_op.change
        /\ last_op'.outcome \in {"new", "same"}) =>
          /\ last_op'.outcome = "new"
          /\ RowsOf(last_op.change)' # {}]_vars

\* ------------------------------------- the jobs, statement by statement

\* bounds: engine track changes and clock advances in the interleaved behaviours
MaxJobChanges == 2
MaxJobTicks == 1

\* the locals of a run of increment_song_counter and of check_rotation_rules
SongLocal(pc, ids, counter, call, t) ==
    [pc |-> pc, ids |-> ids, counter |-> counter, call |-> call, t |-> t]
EvalLocal(pc, ids, last, value, t) ==
    [pc |-> pc, ids |-> ids, last |-> last, value |-> value, t |-> t]

\* the loop moves on to its next rule, or the run ends
NextRule(local) ==
    IF Tail(local.ids) = <<>> THEN Idle ELSE [local EXCEPT !.pc = "read", !.ids = Tail(@)]

\* poll_current_track up to its call of increment_song_counter: the engine
\* answers with its dump, and a new track is recorded
poll_begin ==
    LET best == BestSection(MetadataDump(engine_meta).sections)
        metadata == ParseMetadata(best[1])
        track == ResolveTrack(catalog, metadata)
        counts == CountsAsSong(track.category) /\ ActiveSongRules # <<>>
    IN  /\ jobs.poll = Idle
        /\ IF best = <<>> THEN PollNoOp("no section")
           ELSE IF SameTrack(system_state, metadata) THEN PollNoOp("same")
           ELSE /\ system_state' = SystemState_set(system_state, LastTrackKey, TrackId(metadata))
                /\ catalog' = CountPlay(catalog, track.filename, now)
                /\ now_playing' = NowPlaying_update(now_playing, track.title, track.artist,
                                      track.filename, track.category, track.duration,
                                      track.audio_file_id, now)
                /\ play_history' = Append(play_history,
                                      HistoryRow(track.audio_file_id, track.filename,
                                                 track.title, track.artist, track.category,
                                                 now, metadata.on_air))
                /\ sent' = <<MetadataCommand>>
                /\ song_calls' = IF CountsAsSong(track.category) THEN song_calls + 1
                                 ELSE song_calls
                /\ jobs' = [jobs EXCEPT !.poll =
                               IF counts
                               THEN SongLocal("read", ActiveSongRules, 0, song_calls + 1, now)
                               ELSE Idle]
                /\ last_op' = [op |-> "poll", outcome |-> "new", change |-> metadata.on_air,
                               at |-> now, failed |-> {}]
                /\ UNCHANGED <<channel, now, ticks, rules, schedules, engine_meta, changes,
                               pushes, dispatched, enqueued, gated_out>>

\* increment_song_counter: the gate of the next rule, then the counter read
song_read ==
    LET local == jobs.poll
        id == Head(local.ids)
        counter == NextCounter(system_state, id)
    IN  /\ local # Idle /\ local.pc = "read"
        /\ IF DaysMalformed(rules[id])
           THEN jobs' = [jobs EXCEPT !.poll = Idle] /\ UNCHANGED gated_out
           ELSE IF ~GatePasses(rules[id], local.t)
           THEN jobs' = [jobs EXCEPT !.poll = NextRule(local)] /\ gated_out' = gated_out \cup {id}
           ELSE /\ jobs' = [jobs EXCEPT !.poll =
                               [local EXCEPT !.counter = counter,
                                             !.pc = IF ThresholdReached(counter, rules[id])
                                                    THEN "dispatch" ELSE "write"]]
                /\ UNCHANGED gated_out
        /\ UNCHANGED <<channel, now, ticks, rules, system_state, catalog, now_playing,
                       play_history, schedules, engine_meta, changes, pushes, sent, dispatched,
                       enqueued, song_calls, last_op>>

\* increment_song_counter: the dispatcher call of a rule at its threshold
song_dispatch ==
    LET local == jobs.poll
        id == Head(local.ids)
    IN  /\ local # Idle /\ local.pc = "dispatch"
        /\ \E out \in InsertOutcomes(catalog, rules[id].category) : sent' = out.sent
        /\ dispatched' = Append(dispatched, [rule |-> id, category |-> rules[id].category,
                                             call |-> local.call, at |-> local.t])
        /\ jobs' = [jobs EXCEPT !.poll.pc = "reset"]
        /\ UNCHANGED <<channel, now, ticks, rules, system_state, catalog, now_playing,
                       play_history, schedules, engine_meta, changes, pushes, enqueued,
                       song_calls, gated_out, last_op>>

\* increment_song_counter: the counter write, '0' after a dispatch
song_write ==
    LET local == jobs.poll
        id == Head(local.ids)
    IN  /\ local # Idle /\ local.pc \in {"write", "reset"}
        /\ system_state' = SystemState_set(system_state, SongCounterKey(id),
                               IF local.pc = "reset" THEN str(0) ELSE str(local.counter))
        /\ jobs' = [jobs EXCEPT !.poll = NextRule(local)]
        /\ UNCHANGED <<channel, now, ticks, rules, catalog, now_playing, play_history,
                       schedules, engine_meta, changes, pushes, sent, dispatched, enqueued,
                       song_calls, gated_out, last_op>>

\* check_rotation_rules: the clock is read and the active rules are loaded
eval_begin ==
    /\ jobs.eval = Idle
    /\ ActiveRulesByPriority # <<>>
    /\ jobs' = [jobs EXCEPT !.eval = EvalLocal("read", ActiveRulesByPriority, NoValue,
                                                NoValue, now)]
    /\ last_op' = [op |-> "rotation", outcome |-> "", change |-> 0, at |-> now,
                   failed |-> {}]
    /\ UNCHANGED <<channel, now, ticks, rules, system_state, catalog, now_playing,
                   play_history, schedules, engine_meta, changes, pushes, sent, dispatched,
                   enqueued, song_calls, gated_out>>

\* check_rotation_rules: the gate of the next rule, then the read of its
\* last-trigger and the decision
eval_read ==
    LET local == jobs.eval
        id == Head(local.ids)
        rule == rules[id]
        last == SystemState_get(system_state, LastTriggerKey(id), NoValue)
        write(value) == [local EXCEPT !.pc = "write", !.last = last, !.value = value]
    IN  /\ local # Idle /\ local.pc = "read"
        /\ jobs' = [jobs EXCEPT !.eval =
                       IF DaysMalformed(rule) THEN Idle
                       ELSE IF ~GatePasses(rule, local.t) THEN NextRule(local)
                       ELSE IF rule.rule_type = "at_minute"
                               /\ AtMinuteShouldTrigger(rule, last, local.t)
                            THEN write(strftime_hour(local.t))
                       ELSE IF rule.rule_type = "interval"
                               /\ IntervalShouldTrigger(rule, last, local.t)
                            THEN write(isoformat(local.t))
                       ELSE NextRule(local)]
        /\ UNCHANGED <<channel, now, ticks, rules, system_state, catalog, now_playing,
                       play_history, schedules, engine_meta, changes, pushes, sent, dispatched,
                       enqueued, song_calls, gated_out, last_op>>

\* check_rotation_rules: the last-trigger write of a rule that fires
eval_write ==
    LET local == jobs.eval
        id == Head(local.ids)
    IN  /\ local # Idle /\ local.pc = "write"
        /\ system_state' = SystemState_set(system_state, LastTriggerKey(id), local.value)
        /\ jobs' = [jobs EXCEPT !.eval.pc = "dispatch"]
        /\ UNCHANGED <<channel, now, ticks, rules, catalog, now_playing, play_history,
                       schedules, engine_meta, changes, pushes, sent, dispatched, enqueued,
                       song_calls, gated_out, last_op>>

\* check_rotation_rules: the dispatcher call of a rule that fires
eval_dispatch ==
    LET local == jobs.eval
        id == Head(local.ids)
    IN  /\ local # Idle /\ local.pc = "dispatch"
        /\ \E out \in InsertOutcomes(catalog, rules[id].category) : sent' = out.sent
        /\ dispatched' = Append(dispatched, [rule |-> id, category |-> rules[id].category,
                                             call |-> 0, at |-> local.t])
        /\ jobs' = [jobs EXCEPT !.eval = NextRule(local)]
        /\ UNCHANGED <<channel, now, ticks, rules, system_state, catalog, now_playing,
                       play_history, schedules, engine_meta, changes, pushes, enqueued,
                       song_calls, gated_out, last_op>>

\* the engine starts a music track
EngineTrackChangeJobs ==
    /\ changes < MaxJobChanges
    /\ TrackChange(PathA, {})

\* the clock advances by one period of the rotation_check job
JobsTick ==
    /\ ticks < MaxJobTicks
    /\ ticks' = ticks + 1
    /\ now' = now + RotationCheckSeconds
    /\ UNCHANGED <<channel, jobs, rules, system_state, catalog, now_playing, play_history,
                   schedules, engine_meta, changes, pushes, sent, dispatched, enqueued,
                   song_calls, gated_out, last_op>>

\* the rules of the interleaved behaviours: a moderation every minute, and a
\* jingle after every T songs
JobsInit ==
    /\ now = StartTime
    /\ ticks = 0
    /\ \E T \in 1..2 :
          rules = <<Rule("interval", "random-moderation", 1, NoMinute, AllDays, NoTime, NoTime,
                         2, TRUE),
                    Rule("after_songs", "jingles", T, NoMinute, AllDays, NoTime, NoTime,
                         1, TRUE)>>
    /\ system_state = <<>>
    /\ catalog = InitialCatalog
    /\ now_playing = <<>>
    /\ play_history = <<>>
    /\ schedules = <<Schedule(1, StartTime + RotationCheckSeconds, "once", {})>>
    /\ engine_meta = <<>>
    /\ changes = 0
    /\ pushes = {}
    /\ sent = <<>>
    /\ dispatched = <<>>
    /\ enqueued = <<>>
    /\ song_calls = 0
    /\ gated_out = {}
    /\ last_op = NoOp
    /\ channel = Idle
    /\ jobs = NoJobs

\* the three jobs on their own timers, the poller and the evaluator one
\* statement at a time
NextJobs ==
    \/ EngineTrackChangeJobs
    \/ JobsTick
    \/ poll_begin
    \/ song_read
    \/ song_dispatch
    \/ song_write
    \/ eval_begin
    \/ eval_read
    \/ eval_write
    \/ eval_dispatch
    \/ check_scheduled_shows

SpecJobs == JobsInit /\ [][NextJobs]_vars

\* C21: however the statements of the poller, the rule evaluator and the
\* schedule runner interleave, (a) once a run of increment_song_counter has
\* ended, the counter of every active after_songs rule whose gate passed has
\* advanced by one per qualifying track change and was reset on each fire, and
\* (b) between a job's read of a SystemState key and its write no other job
\* has changed the key, and the write stays until the job's next statement.
C21_NoLostUpdate ==
    /\ jobs.poll = Idle =>
          \A id \in DOMAIN rules :
              AlwaysGatedIn(id) =>
                  /\ StoredCounter(id) = song_calls % rules[id].interval_value
                  /\ DispatchCount(id) = song_calls \div rules[id].interval_value
    /\ (jobs.poll # Idle /\ jobs.poll.pc \in {"write", "dispatch", "reset"}) =>
          NextCounter(system_state, Head(jobs.poll.ids)) = jobs.poll.counter
    /\ (jobs.eval # Idle /\ jobs.eval.pc = "write") =>
          SystemState_get(system_state, LastTriggerKey(Head(jobs.eval.ids)), NoValue)
              = jobs.eval.last
    /\ (jobs.eval # Idle /\ jobs.eval.pc = "dispatch") =>
          SystemState_get(system_state, LastTriggerKey(Head(jobs.eval.ids)), NoValue)
              = jobs.eval.value

\* C21 witness: the poller has read the counter at the threshold for the second
\* song and has dispatched but not yet reset it, the evaluator has written its
\* timestamp and not yet dispatched, and the schedule runner has run its show
C21_Witness ==
    /\ jobs.poll # Idle /\ jobs.poll.pc = "reset"
    /\ jobs.poll.call = 2 /\ jobs.poll.counter = 2
    /\ jobs.eval # Idle /\ jobs.eval.pc = "dispatch"
    /\ enqueued # <<>>
    /\ schedules[1].last_run # NoRun

\* ------------------------------------------- the metadata dump, as text

\* bound: the sections of a dump in the parsing behaviours
MaxDumpSections == 2

\* one key="value" line of a dump, the value word by word
Line(key, words) == [key |-> key, words |-> words]

RECURSIVE BeforeEnd(_)
\* the words of a value in front of its first 'END'
BeforeEnd(words) ==
    IF words = <<>> \/ Head(words) = "END" THEN <<>>
    ELSE <<Head(words)>> \o BeforeEnd(Tail(words))

RECURSIVE Captured(_)
\* what the group (.*?) of the section pattern captures of a section's lines:
\* its lookahead ends the section at the next header, at the end of the text, or
\* at the first 'END', wherever that stands
Captured(lines) ==
    IF lines = <<>> THEN <<>>
    ELSE IF \E i \in DOMAIN Head(lines).words : Head(lines).words[i] = "END"
         THEN <<Line(Head(lines).key, BeforeEnd(Head(lines).words))>>
         ELSE <<Head(lines)>> \o Captured(Tail(lines))

\* the key=value pairs of captured lines, a later line replacing an earlier one
ContentOf(lines) ==
    [k \in {lines[i].key : i \in DOMAIN lines} |->
        lines[CHOOSE i \in DOMAIN lines :
                /\ lines[i].key = k
                /\ \A j \in DOMAIN lines : lines[j].key = k => j <= i].words]

\* re.findall(section pattern, response): number and captured content of every
\* section, in the order of the text
findall(text) ==
    [i \in DOMAIN text |-> Section(text[i].num, ContentOf(Captured(text[i].lines)))]

\* the file the engine plays in the section of a number
DumpFile(num) == <<"a.mp3", "b.mp3", "c.mp3", "d.mp3">>[num]

\* the lines a section of the engine's dump may hold
DumpLines(num) ==
    {Line("title", <<"Song">>), Line("title", <<"THE", "END">>),
     Line("filename", <<"media", "music", DumpFile(num)>>)}

\* the contents tried for a section: up to two different lines, in either order
DumpContents(num) ==
    {<<>>} \cup {<<a>> : a \in DumpLines(num)}
           \cup {<<ab[1], ab[2]>> : ab \in {p \in DumpLines(num) \X DumpLines(num) : p[1] # p[2]}}

\* the dumps tried: sections numbered differently, in every order
DumpTexts ==
    UNION {[1..n -> {[num |-> num, lines |-> lines] :
                        num \in 1..MaxDumpSections,
                        lines \in UNION {DumpContents(m) : m \in 1..MaxDumpSections}}] :
              n \in 1..MaxDumpSections}

WellNumbered(text) ==
    /\ \A i, j \in DOMAIN text : i # j => text[i].num # text[j].num
    /\ \A i \in DOMAIN text : text[i].lines \in DumpContents(text[i].num)

\* a poll run that holds the engine's answer to the metadata command
ParseInit ==
    /\ now = StartTime
    /\ ticks = 0
    /\ rules = <<>>
    /\ system_state = <<>>
    /\ catalog = InitialCatalog
    /\ now_playing = <<>>
    /\ play_history = <<>>
    /\ schedules = <<>>
    /\ engine_meta = <<>>
    /\ changes = 0
    /\ pushes = {}
    /\ sent = <<MetadataCommand>>
    /\ dispatched = <<>>
    /\ enqueued = <<>>
    /\ song_calls = 0
    /\ gated_out = {}
    /\ last_op = NoOp
    /\ channel = Idle
    /\ \E text \in {t \in DumpTexts : WellNumbered(t)} :
          jobs = [NoJobs EXCEPT !.poll = [pc |-> "response", response |-> text]]

\* poll_current_track: the sections are found and the best one is chosen
poll_select ==
    /\ jobs.poll.pc = "response"
    /\ jobs' = [jobs EXCEPT !.poll = [pc |-> "selected", response |-> @.response,
                                      best |-> BestSection(findall(@.response))]]
    /\ UNCHANGED <<channel, now, ticks, rules, system_state, catalog, now_playing,
                   play_history, schedules, engine_meta, changes, pushes, sent, dispatched,
                   enqueued, song_calls, gated_out, last_op>>

NextParse == poll_select

SpecParse == ParseInit /\ [][NextParse]_vars

\* the sections of the dump that hold a filename line
NamedSections(text) ==
    {i \in DOMAIN text : \E l \in DOMAIN text[i].lines : text[i].lines[l].key = "filename"}

\* C31: of a dump whose sections appear in any order, the poller parses the
\* section with the lowest number among those that hold a filename line; a
\* section without one is chosen only when no section holds one.
C31_LowestNamedSection ==
    (jobs.poll.pc = "selected") =>
        LET text == jobs.poll.response
            named == NamedSections(text)
            lowest == CHOOSE i \in named : \A j \in named : text[i].num <= text[j].num
        IN  IF named # {}
            THEN /\ jobs.poll.best # <<>>
                 /\ "filename" \in DOMAIN jobs.poll.best[1]
                 /\ jobs.poll.best[1]["filename"] = <<"media", "music", DumpFile(text[lowest].num)>>
            ELSE jobs.poll.best = <<>> \/ "filename" \notin DOMAIN jobs.poll.best[1]

\* ------------------------------------ catalog rows with and without tags

\* bound: the engine's track changes in the catalog behaviours
MaxCatalogChanges == 2

\* an AudioFile row of a music file whose title, artist and duration may be unset
TaggedRow(id, filename, path, title, artist, duration) ==
    [id |-> id, filename |-> filename, path |-> path, category |-> "music",
     title |-> title, artist |-> artist, duration |-> duration,
     is_active |-> TRUE, play_count |-> 0, last_played |-> <<>>]

\* the catalogs tried: a.mp3 (which the engine tags) and b.mp3 (which it does
\* not), each with any of its title, artist and duration unset
CatalogChoices ==
    {[f \in {"a.mp3", "b.mp3"} |-> IF f = "a.mp3" THEN a ELSE b] :
        a \in {TaggedRow(1, "a.mp3", PathA, t, r, d) :
                  t \in {"", "Catalog A"}, r \in {"", "Catalog Band"}, d \in {0, 180}},
        b \in {TaggedRow(2, "b.mp3", PathB, t, r, 200) :
                  t \in {"", "Catalog B"}, r \in {"", "Catalog Band"}}}

CatalogInit ==
    /\ now = StartTime
    /\ ticks = 0
    /\ rules = <<>>
    /\ system_state = <<>>
    /\ catalog \in CatalogChoices
    /\ now_playing = <<>>
    /\ play_history = <<>>
    /\ schedules = <<>>
    /\ engine_meta = <<>>
    /\ changes = 0
    /\ pushes = {}
    /\ sent = <<>>
    /\ dispatched = <<>>
    /\ enqueued = <<>>
    /\ song_calls = 0
    /\ gated_out = {}
    /\ last_op = NoOp
    /\ channel = Idle
    /\ jobs = NoJobs

\* a track change of the engine among a catalogued tagged file, a catalogued
\* untagged file and two files the catalog does not hold
EngineTrackChangeCatalog ==
    /\ changes < MaxCatalogChanges
    /\ \E path \in {PathA, PathB, PathJ, PathX} : TrackChange(path, {})

NextCatalog ==
    \/ EngineTrackChangeCatalog
    \/ poll_current_track

SpecCatalog == CatalogInit /\ [][NextCatalog]_vars

\* the engine tracks whose change the last poll recorded
RecordedTracks ==
    {engine_meta[i] : i \in {j \in DOMAIN engine_meta :
                                engine_meta[j].on_air = last_op.change}}

\* the title, artist, duration and category that both NowPlaying and the newest
\* PlayHistory row hold
Recorded(field, value) ==
    /\ now_playing[1][field] = value
    /\ field # "duration" => Last(play_history)[field] = value

\* C32: on a detected track change, a catalog entry of the filename supplies
\* title, artist, duration and category wherever it has them and the engine's
\* tags fill in otherwise; without a catalog entry the engine's title and artist
\* are recorded; an empty title becomes the bare filename.
C32_CatalogTakesPrecedence ==
    (last_op.op = "poll" /\ last_op.outcome = "new") =>
        \A t \in RecordedTracks :
            LET f == Basename(t.path)
                row == catalog[f]
            IN  IF f \in DOMAIN catalog
                THEN /\ row.title # "" => Recorded("title", row.title)
                     /\ (row.title = "" /\ EngineTitle(t.path) # "") =>
                            Recorded("title", EngineTitle(t.path))
                     /\ (row.title = "" /\ EngineTitle(t.path) = "") => Recorded("title", f)
                     /\ row.artist # "" => Recorded("artist", row.artist)
                     /\ row.artist = "" => Recorded("artist", EngineArtist(t.path))
                     /\ Recorded("duration", row.duration)
                     /\ Recorded("category", row.category)
                ELSE /\ EngineTitle(t.path) # "" => Recorded("title", EngineTitle(t.path))
                     /\ EngineTitle(t.path) = "" => Recorded("title", f)
                     /\ Recorded("artist", EngineArtist(t.path))

\* a tagged file was recorded under the catalog's title and, the catalog naming
\* no artist, the engine's artist
C32_Witness ==
    /\ last_op.op = "poll" /\ last_op.outcome = "new"
    /\ RecordedTracks # {}
    /\ catalog["a.mp3"].title = "Catalog A" /\ catalog["a.mp3"].artist = ""
    /\ now_playing[1].filename = "a.mp3"
    /\ now_playing[1].title = "Catalog A" /\ now_playing[1].artist = "Band A"
    /\ Last(play_history).title = "Catalog A" /\ Last(play_history).artist = "Band A"

\* ------------------------------- the schedule job, statement by statement

\* the locals of a check_scheduled_shows run: the schedules still to visit, the
\* items still to push for the first of them, and the time read at the start
SchedLocal(pc, ids, items, t) == [pc |-> pc, ids |-> ids, items |-> items, t |-> t]

\* the run moves on to the next schedule of its query result
NextSchedule(local) ==
    IF Len(local.ids) <= 1 THEN Idle
    ELSE SchedLocal("check", Tail(local.ids), <<>>, local.t)

\* check_scheduled_shows: the clock is read and the query is made
sched_begin ==
    LET ids == SetToSeq({id \in DOMAIN schedules : InWindow(schedules[id], now)})
    IN  /\ jobs.sched = Idle
        /\ ids # <<>>
        /\ jobs' = [jobs EXCEPT !.sched = SchedLocal("check", ids, <<>>, now)]
        /\ last_op' = [op |-> "schedule", outcome |-> "", change |-> 0, at |-> now,
                       failed |-> {}]
        /\ UNCHANGED <<channel, now, ticks, rules, system_state, catalog, now_playing,
                       play_history, schedules, engine_meta, changes, pushes, sent,
                       dispatched, enqueued, song_calls, gated_out>>

\* check_scheduled_shows: the two checks that skip a schedule, then the query
\* for the items of its show
sched_check ==
    LET local == jobs.sched
        id == Head(local.ids)
        items == ItemsToQueue(schedules[id].show_id)
    IN  /\ local # Idle /\ local.pc = "check"
        /\ jobs' = [jobs EXCEPT !.sched =
                       IF RanRecently(schedules[id], local.t)
                          \/ WrongWeekday(schedules[id], local.t)
                       THEN NextSchedule(local)
                       ELSE IF items = <<>> THEN [local EXCEPT !.pc = "write"]
                       ELSE [local EXCEPT !.pc = "push", !.items = items]]
        /\ UNCHANGED <<channel, now, ticks, rules, system_state, catalog, now_playing,
                       play_history, schedules, engine_meta, changes, pushes, sent,
                       dispatched, enqueued, song_calls, gated_out, last_op>>

\* check_scheduled_shows: queue_track for the next item of the show
sched_push ==
    LET local == jobs.sched
        id == Head(local.ids)
        item == Head(local.items)
    IN  /\ local # Idle /\ local.pc = "push"
        /\ \E r \in CommandResponses :
              /\ sent' = queue_track(item.path, r).sent
              /\ enqueued' = Append(enqueued,
                                 [schedule |-> id, position |-> item.position,
                                  path |-> item.path, at |-> local.t,
                                  due |-> schedules[id].scheduled_time,
                                  accepted |-> Truthy(r) /\ ~HasError(r)])
        /\ jobs' = [jobs EXCEPT !.sched =
                       IF Len(local.items) = 1 THEN [local EXCEPT !.pc = "write", !.items = <<>>]
                       ELSE [local EXCEPT !.items = Tail(@)]]
        /\ UNCHANGED <<channel, now, ticks, rules, system_state, catalog, now_playing,
                       play_history, schedules, engine_meta, changes, pushes, dispatched,
                       song_calls, gated_out, last_op>>

\* check_scheduled_shows: last_run, the repeat handling and the commit
sched_write ==
    LET local == jobs.sched
        id == Head(local.ids)
    IN  /\ local # Idle /\ local.pc = "write"
        /\ schedules' = [schedules EXCEPT ![id] = AfterRun(@, local.t)]
        /\ jobs' = [jobs EXCEPT !.sched = NextSchedule(local)]
        /\ UNCHANGED <<channel, now, ticks, rules, system_state, catalog, now_playing,
                       play_history, engine_meta, changes, pushes, sent, dispatched,
                       enqueued, song_calls, gated_out, last_op>>

NextShow ==
    \/ sched_begin
    \/ sched_check
    \/ sched_push
    \/ sched_write
    \/ SchedTick

SpecShow == SchedInit /\ [][NextShow]_vars

\* the pushes the running job has made for the schedule it is visiting
RunPushes ==
    SelectSeq(enqueued, LAMBDA e : e.schedule = Head(jobs.sched.ids) /\ e.at = jobs.sched.t)

\* the positions of the items of a schedule's show: all of them, and those
\* whose audio file exists
PositionsOf(id) == {item.position : item \in ShowItems(schedules[id].show_id)}
PlayablePositionsOf(id) ==
    {item.position : item \in {x \in ShowItems(schedules[id].show_id) : x.path # <<>>}}

\* the pushes of the run were made in ascending position order, each position
\* once, with the schedule's row as it was when the run found it
PushedInOrderBeforeWrite(id) ==
    /\ \A i, j \in DOMAIN RunPushes : i < j => RunPushes[i].position < RunPushes[j].position
    /\ \A i \in DOMAIN RunPushes :
          /\ RunPushes[i].due = schedules[id].scheduled_time
          /\ schedules[id].last_run # <<jobs.sched.t>>
          /\ schedules[id].is_active

\* the job does not touch the row of a schedule while it pushes for it
RowUntouchedByPush ==
    [][sched_push => schedules' = schedules]_vars

MaxStatusParts == 2

\* a field of a status object: the key the engine prints it under, its kind and
\* its default
Field(name, key, kind, default) ==
    [name |-> name, key |-> key, kind |-> kind, default |-> default]

\* the status command and the fields of get_bed_status, get_mic_status,
\* get_moderation_status and get_crossfade_status
StatusCommand(getter) ==
    CASE getter = "get_bed_status" -> "bed.status"
      [] getter = "get_mic_status" -> "mic.status"
      [] getter = "get_moderation_status" -> "moderation.status"
      [] getter = "get_crossfade_status" -> "crossfade.status"
      [] OTHER -> "duck.status"
StatusFields(getter) ==
    CASE getter = "get_bed_status" ->
            {Field("enabled", "enabled", "bool", FALSE), Field("volume", "volume", "float", "0.3"),
             Field("duck_level", "duck_level", "float", "0.15")}
      [] getter = "get_mic_status" ->
            {Field("enabled", "enabled", "bool", FALSE), Field("volume", "volume", "float", "1.0"),
             Field("auto_duck", "auto_duck", "bool", TRUE)}
      [] getter = "get_moderation_status" ->
            {Field("bed_enabled", "bed_enabled", "bool", FALSE),
             Field("ducking_active", "ducking", "bool", FALSE),
             Field("bed_volume", "bed_vol", "float", "0.3"),
             Field("ducking_level", "duck_level", "float", "0.15"),
             Field("jingle_volume", "jingle_vol", "float", "1.0"),
             Field("mic_enabled", "mic_enabled", "bool", FALSE),
             Field("mic_volume", "mic_vol", "float", "1.0"),
             Field("mic_auto_duck", "mic_auto_duck", "bool", TRUE)}
      [] getter = "get_crossfade_status" ->
            {Field("music_fade_in", "music_in", "float", "0.5"),
             Field("music_fade_out", "music_out", "float", "0.5"),
             Field("jingle_fade_in", "jingle_in", "float", "0.0"),
             Field("jingle_fade_out", "jingle_out", "float", "0.0"),
             Field("moderation_fade_in", "mod_in", "float", "0.0"),
             Field("moderation_fade_out", "mod_out", "float", "0.0")}
      [] OTHER -> {Field("active", "active", "bool", FALSE)}
StatusGetters ==
    {"get_bed_status", "get_mic_status", "get_moderation_status", "get_crossfade_status",
     "get_ducking_status"}

\* one comma-separated part of a status line: key=value, or text without '='
Part(key, value) == [eq |-> TRUE, key |-> key, value |-> value]
PartWithoutEquals == [eq |-> FALSE, key |-> "", value |-> ""]

\* the values tried after '=': the two the engine prints for a switch, a
\* number, and two that are neither
StatusValues == {"true", "TRUE", "false", "0.7", "abc", ""}

\* str.lower()
lower(value) == IF value = "TRUE" THEN "true" ELSE value

\* float(value): the number, or <<>> where Python raises ValueError
float(value) == IF value = "0.7" THEN <<value>> ELSE <<>>

\* the default status object of a getter
Defaults(getter) ==
    [name \in {f.name : f \in StatusFields(getter)} |->
        (CHOOSE f \in StatusFields(getter) : f.name = name).default]

\* the body of the loop over the parts: the field of the part's key is set,
\* unless float() raised
ParsePart(getter, status, part) ==
    IF ~part.eq \/ part.key \notin {f.key : f \in StatusFields(getter)} THEN status
    ELSE LET f == CHOOSE f \in StatusFields(getter) : f.key = part.key
         IN  IF f.kind = "bool" THEN [status EXCEPT ![f.name] = (lower(part.value) = "true")]
             ELSE IF float(part.value) = <<>> THEN status
             ELSE [status EXCEPT ![f.name] = float(part.value)[1]]

RECURSIVE ParseParts(_, _, _)
ParseParts(getter, status, parts) ==
    IF parts = <<>> THEN status
    ELSE ParseParts(getter, ParsePart(getter, status, Head(parts)), Tail(parts))

\* get_bed_status(), get_mic_status(), get_moderation_status(),
\* get_crossfade_status(): the status object returned for the engine's answer
get_status(getter, response) ==
    IF Truthy(response) /\ ~HasError(response)
    THEN ParseParts(getter, Defaults(getter), response.sections)
    ELSE Defaults(getter)

\* get_ducking_status(): whether 'active=true' stands in the answer
get_ducking_status(response) ==
    [active |-> /\ Truthy(response) /\ ~HasError(response)
                /\ \E i \in DOMAIN response.sections :
                      /\ response.sections[i].eq /\ response.sections[i].key = "active"
                      /\ lower(response.sections[i].value) = "true"]

\* the parts an answer to a getter's command may hold
StatusParts(getter) ==
    {PartWithoutEquals} \cup
    {Part(key, value) : key \in {f.key : f \in StatusFields(getter)} \cup {"other"},
                        value \in StatusValues}

\* the answers tried: None, '', an 'ERROR' text, and lines of up to
\* MaxStatusParts parts
StatusResponses(getter) ==
    {ResponseNone, ResponseEmpty, ResponseError} \cup
    {Response("ok", parts) :
        parts \in UNION {[1..n -> StatusParts(getter)] : n \in 1..MaxStatusParts}}

\* a caller holds the engine's answer to a getter's status command
StatusInit ==
    /\ now = StartTime
    /\ ticks = 0
    /\ rules = <<>>
    /\ system_state = <<>>
    /\ catalog = InitialCatalog
    /\ now_playing = <<>>
    /\ play_history = <<>>
    /\ schedules = <<>>
    /\ engine_meta = <<>>
    /\ changes = 0
    /\ pushes = {}
    /\ dispatched = <<>>
    /\ enqueued = <<>>
    /\ song_calls = 0
    /\ gated_out = {}
    /\ last_op = NoOp
    /\ jobs = NoJobs
    /\ \E getter \in StatusGetters : \E response \in StatusResponses(getter) :
          /\ sent = <<Command(StatusCommand(getter), NoArg)>>
          /\ channel = [pc |-> "answered", wrapper |-> getter, response |-> response]

\* the getter parses the answer and returns
status_return ==
    /\ channel.pc = "answered"
    /\ channel' = [pc |-> "returned", wrapper |-> channel.wrapper,
                   response |-> channel.response,
                   status |-> IF channel.wrapper = "get_ducking_status"
                              THEN get_ducking_status(channel.response)
                              ELSE get_status(channel.wrapper, channel.response)]
    /\ UNCHANGED others

NextStatus == status_return

SpecStatus == StatusInit /\ [][NextStatus]_vars

\* a value is one the engine prints for a field of the kind
WellFormed(kind, value) ==
    IF kind = "bool" THEN lower(value) \in {"true", "false"} ELSE float(value) # <<>>

\* the answer holds a well-formed key=value part for the field
Parseable(response, f) ==
    /\ Truthy(response) /\ ~HasError(response)
    /\ \E i \in DOMAIN response.sections :
          /\ response.sections[i].eq
          /\ response.sections[i].key = f.key
          /\ WellFormed(f.kind, response.sections[i].value)

\* C34: a status getter returns a complete status object whatever the engine
\* answered (no answer, an 'ERROR' text, malformed or missing key=value parts),
\* and every field for which the answer holds no well-formed part has its
\* default value.
C34_StatusAlwaysComplete ==
    (channel.pc = "returned") =>
        /\ DOMAIN channel.status = {f.name : f \in StatusFields(channel.wrapper)}
        /\ \A f \in StatusFields(channel.wrapper) :
              ~Parseable(channel.response, f) => channel.status[f.name] = f.default

\* ------------------------------------------------ range of the song counter

\* the decimal strings of 0 .. T-1
CounterStrings(T) == {str(k) : k \in 0..(T - 1)}

\* C35: the persisted rule_{id}_song_counter of an after_songs rule with
\* threshold T >= 1 is, after any sequence of increment_song_counter calls, the
\* decimal string of an integer in 0..T-1: it never reaches T and is never negative.
C35_CounterBelowThreshold ==
    \A id \in DOMAIN rules :
        (rules[id].rule_type = "after_songs" /\ rules[id].interval_value >= 1) =>
            SystemState_get(system_state, SongCounterKey(id), str(0))
                \in CounterStrings(rules[id].interval_value)

\* a rule with threshold 2 holds 1 in its counter for the second time: it has
\* fired on the second call and been reset in between
C35_Witness ==
    /\ rules[1].rule_type = "after_songs" /\ rules[1].interval_value = 2
    /\ SystemState_get(system_state, SongCounterKey(1), str(0)) = str(1)
    /\ song_calls = 3
    /\ \E i \in DOMAIN dispatched : dispatched[i].rule = 1 /\ dispatched[i].call = 2

\* --------------------------------------------- at_minute, hour by hour

\* the dispatches of rule id in the calendar hour of t
DispatchesInHourOf(id, t) ==
    {j \in DispatchesOf(id) : dispatched[j].at \div SecondsPerHour = t \div SecondsPerHour}

\* C36: when a check_rotation_rules tick runs while the minute is an at_minute
\* rule's minute_of_hour and the rule passes gating, the rule has fired in that
\* calendar hour, exactly once; and the rule fires only in ticks that run during
\* its minute, so an hour without such a tick has no fire of it.
C36_FiresInMatchingMinute ==
    \A id \in DOMAIN rules :
        (rules[id].rule_type = "at_minute" /\ rules[id].is_active
            /\ rules[id].minute_of_hour # NoMinute) =>
            /\ (EvaluatedNow /\ minute_of(now) = rules[id].minute_of_hour[1]
                    /\ GatePasses(rules[id], now))
                  => Cardinality(DispatchesInHourOf(id, now)) = 1
            /\ \A j \in DispatchesOf(id) :
                  /\ minute_of(dispatched[j].at) = rules[id].minute_of_hour[1]
                  /\ GatePasses(rules[id], dispatched[j].at)

\* the rule of minute 59 fired in one hour and, after an hour in which no tick
\* saw minute 59, has just fired again in the tick that did
C36_Witness ==
    /\ rules[1].rule_type = "at_minute" /\ rules[1].minute_of_hour = <<MinutesPerHour - 1>>
    /\ EvaluatedNow
    /\ minute_of(now) = MinutesPerHour - 1
    /\ Cardinality(DispatchesOf(1)) = 2
    /\ Cardinality(DispatchesInHourOf(1, now)) = 1
    /\ \E j \in DispatchesOf(1) : dispatched[j].at + 2 * SecondsPerHour <= now

\* ------------------------------------------- clear_queue against the engine

\* bound: the requests a queue of the engine lists at the start
MaxQueued == 3

\* what the engine answers to the command a clear_queue call sends: nothing or an
\* error at any time; a listing shows request ids exactly when the queue holds any
ClearResponses(cmd, queue, moderation) ==
    {ResponseNone, ResponseError} \cup
    (CASE cmd.name = "queue.queue" ->
             {IF queue > 0 THEN Response("ids", <<>>) ELSE ResponseOk}
       [] cmd.name = "moderation_queue.queue" ->
             {IF moderation > 0 THEN Response("ids", <<>>) ELSE ResponseOk}
       [] OTHER -> {ResponseOk})

\* the engine's queues of MaxQueued requests at most, and no call under way
ClearInit ==
    /\ now = StartTime
    /\ ticks = 0
    /\ rules = <<>>
    /\ system_state = <<>>
    /\ catalog = InitialCatalog
    /\ now_playing = <<>>
    /\ play_history = <<>>
    /\ schedules = <<>>
    /\ engine_meta = <<>>
    /\ changes = 0
    /\ pushes = {}
    /\ sent = <<>>
    /\ dispatched = <<>>
    /\ enqueued = <<>>
    /\ song_calls = 0
    /\ gated_out = {}
    /\ last_op = NoOp
    /\ jobs = NoJobs
    /\ \E queue \in 0..MaxQueued, moderation \in 0..MaxQueued :
          channel = [pc |-> "idle", local |-> Returns(TRUE), queue |-> queue,
                     moderation |-> moderation]

\* POST /api/queue/clear: clear_queue() is called
clear_call ==
    /\ channel.pc = "idle"
    /\ channel' = [channel EXCEPT !.pc = "clearing", !.local = WrapperStart("clear_queue")]
    /\ UNCHANGED others

\* one send_liquidsoap_command call of the running clear_queue returns and the
\* loop goes on; the source the 'skip' command reaches may or may not start the
\* next request of the queue
clear_step ==
    /\ channel.pc = "clearing"
    /\ \E r \in ClearResponses(channel.local.cmd, channel.queue, channel.moderation) :
       \E started \in {0, 1} :
          LET local == ClearQueueStep(channel.local, r)
              skipped == channel.local.cmd.name = "skip" /\ started = 1 /\ channel.queue > 0
          IN  channel' = [channel EXCEPT
                             !.pc = IF local.done THEN "done" ELSE "clearing",
                             !.local = local,
                             !.queue = IF skipped THEN @ - 1 ELSE @]
    /\ UNCHANGED others

\* a track ends and the engine starts the next request of one of its queues
engine_dequeue ==
    /\ \/ channel.queue > 0 /\ channel' = [channel EXCEPT !.queue = @ - 1]
       \/ channel.moderation > 0 /\ channel' = [channel EXCEPT !.moderation = @ - 1]
    /\ UNCHANGED others

NextClear ==
    \/ clear_call
    \/ clear_step
    \/ engine_dequeue

\* every send_liquidsoap_command call of the loop returns, so the loop keeps
\* stepping; nothing is assumed of the engine
SpecClear == ClearInit /\ [][NextClear]_vars /\ WF_vars(clear_step)

\* C37: a call of clear_queue, as bound after module load, returns whatever the
\* engine does, also when the queue listing stays non-empty after a skip.
C37_ClearQueueTerminates == (channel.pc = "clearing") ~> (channel.pc = "done")

\* ------------------------------------------------- the schedule's window

\* the window of the schedule's scheduled_time has passed
Elapsed(id) == schedules[id].scheduled_time < now - WindowSeconds

\* C38: a schedule is fired only by a run with now - 1 min <= scheduled_time <=
\* now + 1 min; a run that skips a schedule, because its last_run is younger than
\* 120 s or because it is weekly and today is none of its days, leaves its
\* last_run, scheduled_time and is_active as they were; and a daily or weekly
\* schedule whose window has elapsed unfired is not fired by any later run.
C38_FiredOnlyInWindow ==
    [][\A id \in DOMAIN schedules :
          /\ Fired(id) =>
                /\ schedules[id].scheduled_time >= now - WindowSeconds
                /\ schedules[id].scheduled_time <= now + WindowSeconds
          /\ (RanRecently(schedules[id], now) \/ WrongWeekday(schedules[id], now)) =>
                schedules'[id] = schedules[id]
          /\ (schedules[id].repeat_type \in {"daily", "weekly"} /\ Elapsed(id)) =>
                /\ schedules'[id] = schedules[id]
                /\ Elapsed(id)']_vars

\* a run that fired schedule 1 skipped the weekly schedule 2 inside its window on
\* the wrong weekday; the window has elapsed since, and a later run has just
\* left the schedule unfired
C38_Witness ==
    /\ last_op.op = "schedule" /\ last_op.at = now
    /\ schedules[2].repeat_type = "weekly" /\ schedules[2].days_of_week = {0}
    /\ schedules[2].last_run = NoRun
    /\ Elapsed(2)
    /\ schedules[1].last_run # NoRun
    /\ InWindow(schedules[2], schedules[1].last_run[1])
    /\ WrongWeekday(schedules[2], schedules[1].last_run[1])

\* -------------------------------------------- rules at the edge of their range

\* bounds: track changes and clock advances in the edge behaviours
MaxEdgeChanges == 2
MaxEdgeTicks == 2

\* rule 1: after_songs with interval_value 0 (the column default) or 1, under
\* every gate; rule 2: an interval rule of 0 or -1 minutes; rule 3: an at_minute
\* rule whose minute_of_hour is NULL
EdgeSongRules ==
    {Rule("after_songs", "jingles", T, NoMinute, gate[1], gate[2], gate[3], 0, TRUE) :
        T \in 0..1, gate \in GateChoices}
EdgeIntervalRules ==
    {Rule("interval", "random-moderation", M, NoMinute, AllDays, NoTime, NoTime, 2, TRUE) :
        M \in (-1)..0}
EdgeMinuteRule ==
    Rule("at_minute", "jingles", 0, NoMinute, AllDays, NoTime, NoTime, 1, TRUE)

EdgeInit ==
    /\ now = StartTime
    /\ ticks = 0
    /\ \E r1 \in EdgeSongRules, r2 \in EdgeIntervalRules : rules = <<r1, r2, EdgeMinuteRule>>
    /\ system_state = <<>>
    /\ catalog = InitialCatalog
    /\ now_playing = <<>>
    /\ play_history = <<>>
    /\ schedules = <<>>
    /\ engine_meta = <<>>
    /\ changes = 0
    /\ pushes = {}
    /\ sent = <<>>
    /\ dispatched = <<>>
    /\ enqueued = <<>>
    /\ song_calls = 0
    /\ gated_out = {}
    /\ last_op = NoOp
    /\ channel = Idle
    /\ jobs = NoJobs

\* the engine starts a music track or a jingle
EngineTrackChangeEdge ==
    /\ changes < MaxEdgeChanges
    /\ \E path \in {PathA, PathJ} : TrackChange(path, {})

\* the clock advances by one period of the rotation_check job
EdgeTick ==
    /\ ticks < MaxEdgeTicks
    /\ ticks' = ticks + 1
    /\ now' = now + RotationCheckSeconds
    /\ UNCHANGED <<channel, jobs, rules, system_state, catalog, now_playing, play_history,
                   schedules, engine_meta, changes, pushes, sent, dispatched, enqueued,
                   song_calls, gated_out, last_op>>

NextEdge ==
    \/ EngineTrackChangeEdge
    \/ poll_current_track
    \/ check_rotation_rules
    \/ EdgeTick

SpecEdge == EdgeInit /\ [][NextEdge]_vars

\* C39: an active after_songs rule with interval_value 0 or 1 has fired on every
\* increment_song_counter call on which it passed gating, and its persisted
\* counter reads 0 throughout; an interval rule with interval_value <= 0 and an
\* at_minute rule without minute_of_hour have never fired and have no
\* last-trigger value stored.
C39_EdgeValues ==
    \A id \in DOMAIN rules :
        /\ (rules[id].rule_type = "after_songs" /\ rules[id].is_active
                /\ rules[id].interval_value \in {0, 1}) =>
              /\ SystemState_get(system_state, SongCounterKey(id), str(0)) = str(0)
              /\ id \notin gated_out => DispatchCalls(id) = 1..song_calls
              /\ id \notin gated_out => DispatchCount(id) = song_calls
        /\ (\/ rules[id].rule_type = "interval" /\ rules[id].interval_value <= 0
            \/ rules[id].rule_type = "at_minute" /\ rules[id].minute_of_hour = NoMinute) =>
              /\ DispatchesOf(id) = {}
              /\ SystemState_get(system_state, LastTriggerKey(id), NoValue) = NoValue

\* a rule of threshold 0 has fired on both of two counted track changes and holds
\* '0' in its counter, and the evaluator has just run past the other two rules
C39_Witness ==
    /\ rules[1].interval_value = 0
    /\ song_calls = 2
    /\ DispatchCalls(1) = {1, 2}
    /\ SongCounterKey(1) \in DOMAIN system_state
    /\ rules[2].interval_value = 0
    /\ EvaluatedNow
    /\ ticks = MaxEdgeTicks

====
